---- MODULE Spec2Model ----
(***************************************************************************)
(* Model of the documentation scheduler of repo_agent:                     *)
(*   - the entity tree (DocItem) with its reference edges,                 *)
(*   - MetaInfo.get_task_manager, which turns the tree into a task graph,  *)
(*   - TaskManager / worker, the dispatch loop,                            *)
(*   - Runner.generate_doc_for_a_single_item, the task handler,            *)
(*   - MetaInfo.load_doc_from_older_meta, the reconciliation of two trees. *)
(*                                                                         *)
(* Entities are numbered 1..MaxItems in the order of get_travel_list (the  *)
(* records of a file are listed parent first).  Node 0 is the file that    *)
(* holds them; the repository root above it holds nothing else.            *)
(***************************************************************************)
EXTENDS Integers, Sequences, FiniteSets, TLC

\* ------------------------------------------------------------------ bounds
MaxItems == 3
MaxEdges == 2
NumWorkers == 2
MaxRuns == 2

Items == 1..MaxItems
FileNode == 0
Nodes == 0..MaxItems
Workers == 1..NumWorkers

\* DocItemStatus
doc_up_to_date == "doc_up_to_date"
doc_has_not_been_generated == "doc_has_not_been_generated"
code_changed == "code_changed"
add_new_referencer == "add_new_referencer"
referencer_not_exist == "referencer_not_exist"
DocItemStatus ==
    {doc_up_to_date, doc_has_not_been_generated, code_changed,
     add_new_referencer, referencer_not_exist}

VARIABLES
    \* --- DocItem fields (the tree of MetaInfo.target_repo_hierarchical_tree)
    father,                 \* item -> its father (0: the file)
    item_status,            \* item -> DocItemStatus
    md_content,             \* item -> sequence of doc versions
    reference_who,          \* item -> sequence of the items it references
    special_reference_type, \* item -> sequence of flags, zipped with reference_who
    multithread_task_id,    \* item -> task id, -1 when it has none
    ignore_list,            \* setting.project.ignore_list: full names (node paths)
    \* --- the run of Runner
    stage,                  \* where the run is
    doc_items,              \* get_task_manager: entities still to select
    deal_items,             \* get_task_manager: entities selected so far
    task_dict,              \* TaskManager.task_dict: id -> Task (insertion order = id order)
    now_id,                 \* TaskManager.now_id
    circle_log,             \* the "circle-reference" lines printed, as <<level, item>>
    sel_log,                \* per selection: the item, min_break_level, its best_break_level
    \* --- the workers
    nworkers,               \* how many workers run the dispatch loop
    pc,                     \* worker -> position in worker()
    it_keys,                \* worker -> the keys its dict iterator was created over
    it_pos,                 \* worker -> how many keys the iterator has yielded
    cur,                    \* worker -> the task id it holds, -1 when none
    gen_ok,                 \* worker -> whether its generator call returned
    \* --- history, for stating the properties
    blocking0,              \* task id -> blocking set at registration
    handed,                 \* task id -> how often get_next_task returned it
    completed,              \* task ids for which a handler has returned
    popped,                 \* task ids removed by mark_completed
    failed_gen,             \* run -> items whose generator call raised in that run
    generated,              \* run -> items whose generation succeeded in that run
    run_no,                 \* which run of the program this is
    \* --- load_doc_from_older_meta: the older MetaInfo and the merge
    code_content,           \* item -> content["code_content"] of the new tree
    who_reference_me,       \* item -> sequence of the items that reference it
    hits,                   \* what find_all_referencer returned to parse_reference
    has_task,               \* node -> DocItem.has_task
    old_father,             \* older tree: item -> father
    old_key,                \* older tree: item -> its key in the father's children
    old_item_status,        \* older tree: item -> DocItemStatus
    old_md_content,         \* older tree: item -> doc versions
    old_code_content,       \* older tree: item -> content["code_content"]
    old_who_reference_me_name_list, \* older tree: item -> names of its referencers
    deleted_items,          \* deleted_items_from_older_meta
    rstage,                 \* where load_doc_from_older_meta is
    \* --- MetaInfo.checkpoint
    document_version,       \* MetaInfo.document_version
    in_generation_process,  \* MetaInfo.in_generation_process
    disk_hierarchy,         \* project_hierarchy.json: a document, Absent or Torn
    disk_meta,              \* meta-info.json: a document, Absent or Torn
    cp_pc,                  \* where checkpoint is
    now_hierarchy_json,     \* checkpoint: the hierarchy document it built
    cp_before,              \* the two files as they were when the last call began
    \* --- MetaInfo.from_project_hierarchy_json, the records of one file
    obj_item_list,          \* the records of the file, in the order of the input
    item_father,            \* per record attached so far: its father (0: file_item)
    children,               \* container -> its children dict, as <<key, record>> pairs
    attach_pos,             \* how many records the attaching loop has handled
    \* --- CallGraphBuilder._compute_scc_and_compress
    calls,                  \* node -> call_graph[node]["calls"]
    scc_pc,                 \* where _compute_scc_and_compress is
    key_pos,                \* how many keys the outer loop has taken
    dfs_stack,              \* sequence of <<node, stage>>, top last
    index_counter,
    index,                  \* node -> index, NotIn while it has none
    lowlink,                \* node -> lowlink, NotIn while it has none
    stack,                  \* the stack of Tarjan's algorithm, top last
    on_stack,               \* node -> on_stack.get(node, False)
    sccs,                   \* the components found, in order
    component_of,           \* node -> component id, NotIn while it has none
    compressed_graph,       \* component id -> [nodes, calls]
    \* --- find_all_referencer
    ref_matches,            \* the occurrences of the identifier that the search finds
    ref_origin,             \* the occurrence the caller asks about: <<file, line, column>>
    in_file_only,
    ref_result,             \* what the function returned
    ref_pc,                 \* which function has answered
    \* --- a start of the program on the checkpoint of an earlier process
    boot,                   \* where the two processes are
    live_reference_who,     \* reference_who of the process that wrote the checkpoint
    \* --- the kinds and lines parse_reference reads, and a second file
    content_type,           \* item -> content["type"], the raw type of its record
    item_type,              \* node -> DocItemType
    item_start_line,        \* item -> code_start_line
    item_end_line,          \* item -> code_end_line
    positions,              \* the hits as the resolver gives them: file, line, target
    other_reference_who,    \* reference_who of the item of the second file
    other_special_reference_type, \* its special_reference_type
    \* --- to_hierarchy_json and from_project_hierarchy_json in turn
    trip_pc,                \* where the round trip is
    file_tree,              \* the DocItems of the file, built from obj_item_list
    reloaded_tree           \* the DocItems built from the document written

oldVars == <<old_father, old_key, old_item_status, old_md_content, old_code_content,
             old_who_reference_me_name_list>>
mergeVars == <<code_content, who_reference_me, hits, has_task, deleted_items, rstage>>
diskVars == <<document_version, in_generation_process, disk_hierarchy, disk_meta, cp_pc,
              now_hierarchy_json, cp_before>>
hierVars == <<obj_item_list, item_father, children, attach_pos>>
sccVars == <<calls, scc_pc, key_pos, dfs_stack, index_counter, index, lowlink, stack,
             on_stack, sccs, component_of, compressed_graph>>
refVars == <<ref_matches, ref_origin, in_file_only, ref_result, ref_pc>>
bootVars == <<boot, live_reference_who>>
weakVars == <<content_type, item_type, item_start_line, item_end_line, positions,
              other_reference_who, other_special_reference_type>>
tripVars == <<trip_pc, file_tree, reloaded_tree>>
inputVars == <<hierVars, sccVars, refVars, bootVars, weakVars, tripVars>>
treeVars == <<father, reference_who, special_reference_type, ignore_list, oldVars, mergeVars,
              diskVars, inputVars>>
docVars == <<item_status, md_content>>
buildVars == <<doc_items, deal_items, now_id, circle_log, sel_log, multithread_task_id, blocking0>>
workerVars == <<pc, it_keys, it_pos, cur, gen_ok>>
histVars == <<handed, completed, popped, failed_gen, generated>>
vars == <<treeVars, docVars, buildVars, workerVars, histVars, stage, task_dict, nworkers, run_no>>
\* the tree, the run and the disk: all but what is read as input
coreVars == <<father, reference_who, special_reference_type, ignore_list, oldVars,
              mergeVars, diskVars, docVars, buildVars, workerVars, histVars, stage,
              task_dict, nworkers, run_no>>

\* ------------------------------------------------------------------ helpers
Range(s) == {s[i] : i \in DOMAIN s}

RECURSIVE SeqOfSet(_)
\* the elements of a finite set of integers in ascending order
SeqOfSet(S) ==
    IF S = {} THEN <<>>
    ELSE LET m == CHOOSE x \in S : \A y \in S : x <= y
         IN <<m>> \o SeqOfSet(S \ {m})

RemoveFirst(s, x) ==
    LET i == CHOOSE k \in DOMAIN s : s[k] = x /\ \A j \in 1..(k-1) : s[j] # x
    IN SubSeq(s, 1, i - 1) \o SubSeq(s, i + 1, Len(s))

\* ------------------------------------------------------------------ DocItem
Children(f, n) == {c \in Items : f[c] = n}

RECURSIVE tree_path(_, _)
\* DocItem.tree_path below the repository root: file first, the node last
tree_path(f, n) == IF n = FileNode THEN <<FileNode>> ELSE Append(tree_path(f, f[n]), n)

\* DocItem.has_ans_relation: one of the two is on the other's tree_path
has_ans_relation(f, a, b) ==
    b \in Range(tree_path(f, a)) \/ a \in Range(tree_path(f, b))

RECURSIVE check_depth(_, _)
check_depth(f, n) ==
    IF Children(f, n) = {} THEN 0
    ELSE LET ds == {check_depth(f, c) : c \in Children(f, n)}
         IN 1 + CHOOSE d \in ds : \A e \in ds : e <= d

RECURSIVE get_travel_list(_, _)
RECURSIVE TravelChildren(_, _)
TravelChildren(f, cs) ==
    IF cs = <<>> THEN <<>>
    ELSE get_travel_list(f, Head(cs)) \o TravelChildren(f, Tail(cs))
\* pre-order walk; children in the insertion order of the children dict
get_travel_list(f, n) == <<n>> \o TravelChildren(f, SeqOfSet(Children(f, n)))

\* DocItem.get_full_name: the names on the path from the file to the node
get_full_name(n) == tree_path(father, n)

\* str.startswith on full names
StartsWith(s, p) == Len(p) <= Len(s) /\ SubSeq(s, 1, Len(p)) = p

\* need_to_generate that takes only an entity never documented for one to do
need_to_generate_in_OnlyNew(st, n) ==
    IF n = FileNode THEN FALSE
    ELSE IF st[n] # doc_has_not_been_generated THEN FALSE
    ELSE ~ \E ig \in ignore_list : StartsWith(get_full_name(n), ig)

\* need_to_generate(doc_item, ignore_list)
need_to_generate_in(st, n) ==
    IF n = FileNode THEN FALSE
    ELSE IF st[n] = doc_up_to_date THEN FALSE
    ELSE ~ \E ig \in ignore_list : StartsWith(get_full_name(n), ig)

need_to_generate(n) == need_to_generate_in(item_status, n)

\* ------------------------------------------------------------------ get_task_manager
\* sorted(doc_items, key=depth): stable insertion sort
RECURSIVE InsertByDepth(_, _)
InsertByDepth(s, x) ==
    IF s = <<>> THEN <<x>>
    ELSE IF check_depth(father, x) < check_depth(father, Head(s))
         THEN <<x>> \o s
         ELSE <<Head(s)>> \o InsertByDepth(Tail(s), x)

RECURSIVE SortedByDepth(_)
SortedByDepth(s) ==
    IF s = <<>> THEN <<>>
    ELSE InsertByDepth(SortedByDepth(SubSeq(s, 1, Len(s) - 1)), s[Len(s)])

\* zip(item.reference_who, item.special_reference_type): the index range of the pairs
ZipRange(i) ==
    1..(IF Len(reference_who[i]) <= Len(special_reference_type[i])
        THEN Len(reference_who[i]) ELSE Len(special_reference_type[i]))

\* best_break_level that counts the children only
best_break_level_ChildrenOnly(i, deal) ==
    Cardinality({c \in Children(father, i) : need_to_generate(c) /\ c \notin deal})

\* best_break_level of an item: children and referenced entities that need work
\* and are not dealt with yet
best_break_level(i, deal) ==
    Cardinality({c \in Children(father, i) : need_to_generate(c) /\ c \notin deal})
    + Cardinality({k \in ZipRange(i) :
         need_to_generate(reference_who[i][k]) /\ reference_who[i][k] \notin deal})

\* second_best_break_level without the "not special" test of line 603
second_best_break_level_CountsSpecial(i, deal) ==
    Cardinality({k \in ZipRange(i) :
         need_to_generate(reference_who[i][k]) /\ reference_who[i][k] \notin deal})

\* second_best_break_level: as above, but only the referenced entities whose
\* edge is not special
second_best_break_level(i, deal) ==
    Cardinality({k \in ZipRange(i) :
         /\ need_to_generate(reference_who[i][k])
         /\ ~ special_reference_type[i][k]
         /\ reference_who[i][k] \notin deal})

InitialBreakLevel == 10000000

RECURSIVE SelectTarget(_, _, _, _, _)
\* the for-loop over doc_items: <<min_break_level, target_item>>
SelectTarget(items, k, deal, min_break_level, target_item) ==
    IF k > Len(items) THEN <<min_break_level, target_item>>
    ELSE IF best_break_level(items[k], deal) = 0 THEN <<-1, items[k]>>
    ELSE IF second_best_break_level(items[k], deal) < min_break_level
         THEN SelectTarget(items, k + 1, deal,
                           second_best_break_level(items[k], deal), items[k])
         ELSE SelectTarget(items, k + 1, deal, min_break_level, target_item)

\* item_denp_task_ids that takes the children only
item_denp_task_ids_ChildrenOnly(target) ==
    {multithread_task_id[c] : c \in {c \in Children(father, target) : multithread_task_id[c] # -1}}

\* item_denp_task_ids of the selected item, as a set (list(set(...)))
item_denp_task_ids(target) ==
    {multithread_task_id[c] : c \in {c \in Children(father, target) : multithread_task_id[c] # -1}}
    \cup {multithread_task_id[r] : r \in {r \in Range(reference_who[target]) :
                                              multithread_task_id[r] \in DOMAIN task_dict}}

\* the assert on the children's task ids
ChildIdsRegistered(target) ==
    \A c \in Children(father, target) :
        multithread_task_id[c] # -1 => multithread_task_id[c] \in DOMAIN task_dict

\* Task(task_id, dependencies, extra_info), status 0
Task(id, deps, extra) ==
    [task_id |-> id, dependencies |-> deps, extra_info |-> extra, status |-> 0]

\* TaskManager.add_task
add_task(td, id, deps, extra) ==
    [t \in DOMAIN td \cup {id} |-> IF t = id THEN Task(id, deps, extra) ELSE td[t]]

\* ------------------------------------------------------------------ initial states
\* Trees: the father of an item is the file or an earlier item on the path of
\* the previous item (records are listed parent first).
TreeShapes ==
    {f \in [Items -> Nodes] :
        \A i \in Items :
            /\ f[i] < i
            /\ (i > 1 /\ f[i] # FileNode) => f[i] \in Range(tree_path(f, i - 1))}

\* parse_reference adds an edge a -> b (a references b) only between entities
\* that are not in an ancestor relation
EdgePairs(f) ==
    {e \in Items \X Items : e[1] # e[2] /\ ~ has_ans_relation(f, e[1], e[2])}

RECURSIVE SubsetsUpTo(_, _)
\* the subsets of S of at most k elements
SubsetsUpTo(S, k) ==
    IF k = 0 THEN {{}}
    ELSE LET P == SubsetsUpTo(S, k - 1)
         IN P \cup {p \cup {x} : p \in P, x \in S}

EdgeSets(f) == SubsetsUpTo(EdgePairs(f), MaxEdges)

InitStatuses == {doc_up_to_date, doc_has_not_been_generated}

IgnoreLists(f) == {{}} \cup {{tree_path(f, n)} : n \in Items}

NoTaskDict == [t \in {} |-> Task(0, {}, 0)]

InitTree ==
    \E f \in TreeShapes :
    \E E \in EdgeSets(f) :
    \E S \in SUBSET E :
        /\ father = f
        /\ reference_who = [i \in Items |-> SeqOfSet({b \in Items : <<i, b>> \in E})]
        /\ special_reference_type =
              [i \in Items |->
                  [k \in 1..Cardinality({b \in Items : <<i, b>> \in E}) |->
                      <<i, SeqOfSet({b \in Items : <<i, b>> \in E})[k]>> \in S]]
        /\ ignore_list \in IgnoreLists(f)
        /\ item_status \in [Items -> InitStatuses]
        /\ md_content = [i \in Items |->
                            IF item_status[i] = doc_has_not_been_generated
                            THEN <<>> ELSE <<1>>]

\* no older MetaInfo takes part in a run of the scheduler
InitNoMerge ==
    /\ code_content = [i \in Items |-> 1]
    /\ who_reference_me =
          [i \in Items |-> SeqOfSet({a \in Items : i \in Range(reference_who[a])})]
    /\ hits = <<>>
    /\ has_task = [n \in Nodes |-> FALSE]
    /\ old_father = father
    /\ old_key = [i \in Items |-> i]
    /\ old_item_status = item_status
    /\ old_md_content = md_content
    /\ old_code_content = code_content
    /\ old_who_reference_me_name_list = [i \in Items |-> {}]
    /\ deleted_items = <<>>
    /\ rstage = "none"

\* a file that does not exist, and a file that holds part of a document
Absent == [file |-> "absent"]
Torn == [file |-> "torn"]

\* nothing has been written, and no checkpoint is under way
InitDisk ==
    /\ document_version = ""
    /\ in_generation_process = FALSE
    /\ disk_hierarchy = Absent
    /\ disk_meta = Absent
    /\ cp_pc = "idle"
    /\ now_hierarchy_json = Absent
    /\ cp_before = [hierarchy |-> Absent, meta |-> Absent]

\* no file is being turned into entities
InitNoRecords ==
    /\ obj_item_list = <<>>
    /\ item_father = <<>>
    /\ children = [c \in {FileNode} |-> {}]
    /\ attach_pos = 0

\* a key that a dict does not hold
NotIn == -1

\* CallGraphBuilder.__init__: no call graph has been built
InitNoCalls ==
    /\ calls = <<>>
    /\ scc_pc = "idle"
    /\ key_pos = 0
    /\ dfs_stack = <<>>
    /\ index_counter = 0
    /\ index = <<>>
    /\ lowlink = <<>>
    /\ stack = <<>>
    /\ on_stack = <<>>
    /\ sccs = <<>>
    /\ component_of = <<>>
    /\ compressed_graph = <<>>

\* no reference search has been asked for
InitNoSearch ==
    /\ ref_matches = {}
    /\ ref_origin = <<"", 0, 0>>
    /\ in_file_only = FALSE
    /\ ref_result = {}
    /\ ref_pc = "idle"

\* the program runs in the process that built the tree
InitNoBoot ==
    /\ boot = "none"
    /\ live_reference_who = <<>>

\* kinds and lines are not looked at
InitNoKinds ==
    /\ content_type = <<>>
    /\ item_type = <<>>
    /\ item_start_line = <<>>
    /\ item_end_line = <<>>
    /\ positions = <<>>
    /\ other_reference_who = <<>>
    /\ other_special_reference_type = <<>>

\* no document is written and read back
InitNoTrip ==
    /\ trip_pc = "none"
    /\ file_tree = <<>>
    /\ reloaded_tree = <<>>

InitNoInput ==
    /\ InitNoRecords /\ InitNoCalls /\ InitNoSearch /\ InitNoBoot /\ InitNoKinds
    /\ InitNoTrip

InitSchedOnly(n) ==
    /\ InitDisk
    /\ multithread_task_id = [i \in Items |-> -1]
    /\ stage = "start"
    /\ doc_items = <<>>
    /\ deal_items = <<>>
    /\ task_dict = NoTaskDict
    /\ now_id = 0
    /\ circle_log = <<>>
    /\ sel_log = <<>>
    /\ nworkers = n
    /\ pc = [w \in Workers |-> "idle"]
    /\ it_keys = [w \in Workers |-> <<>>]
    /\ it_pos = [w \in Workers |-> 0]
    /\ cur = [w \in Workers |-> -1]
    /\ gen_ok = [w \in Workers |-> TRUE]
    /\ blocking0 = NoTaskDict
    /\ handed = NoTaskDict
    /\ completed = {}
    /\ popped = {}
    /\ failed_gen = [r \in 1..MaxRuns |-> {}]
    /\ generated = [r \in 1..MaxRuns |-> {}]
    /\ run_no = 1

InitSched(n) == InitNoInput /\ InitSchedOnly(n)

InitRun(n) == InitNoMerge /\ InitSched(n)

\* Runner.run / first_generate call worker() once, on the calling thread
Init == InitTree /\ InitRun(1)

\* ------------------------------------------------------------------ get_task_manager, the actions
\* lines 566-584: the travel list, filtered and sorted by depth
GetTaskManagerStart ==
    /\ stage = "start"
    /\ doc_items' = SortedByDepth(SelectSeq(get_travel_list(father, FileNode), need_to_generate))
    /\ deal_items' = <<>>
    /\ task_dict' = NoTaskDict
    /\ now_id' = 0
    /\ stage' = "topology"
    /\ UNCHANGED <<treeVars, docVars, circle_log, sel_log, multithread_task_id, blocking0,
                   workerVars, histVars, nworkers, run_no>>

\* one round of the while loop (lines 585-636): select, register, remove
SelectItem ==
    /\ stage = "topology"
    /\ doc_items # <<>>
    /\ LET sel == SelectTarget(doc_items, 1, Range(deal_items), InitialBreakLevel, -1)
           min_break_level == sel[1]
           target_item == sel[2]
           deps == item_denp_task_ids(target_item)
       IN /\ circle_log' = IF min_break_level > 0
                           THEN Append(circle_log, <<min_break_level, target_item>>)
                           ELSE circle_log
          /\ sel_log' = Append(sel_log,
                   [item |-> target_item, level |-> min_break_level,
                    best |-> best_break_level(target_item, Range(deal_items))])
          /\ IF ChildIdsRegistered(target_item)
             THEN /\ task_dict' = add_task(task_dict, now_id, deps, target_item)
                  /\ now_id' = now_id + 1
                  /\ multithread_task_id' = [multithread_task_id EXCEPT ![target_item] = now_id]
                  /\ blocking0' = [t \in DOMAIN blocking0 \cup {now_id} |->
                                      IF t = now_id THEN deps ELSE blocking0[t]]
                  /\ handed' = [t \in DOMAIN handed \cup {now_id} |->
                                      IF t = now_id THEN 0 ELSE handed[t]]
                  /\ deal_items' = Append(deal_items, target_item)
                  /\ doc_items' = RemoveFirst(doc_items, target_item)
                  /\ stage' = stage
             ELSE \* AssertionError leaves get_task_manager
                  /\ stage' = "raised"
                  /\ UNCHANGED <<task_dict, now_id, multithread_task_id, blocking0, handed,
                                 deal_items, doc_items>>
    /\ UNCHANGED <<treeVars, docVars, workerVars, completed, popped, failed_gen,
                   generated, nworkers, run_no>>

\* get_task_manager returns; the caller starts the dispatch loop
GetTaskManagerReturn ==
    /\ stage = "topology"
    /\ doc_items = <<>>
    /\ stage' = "dispatch"
    /\ pc' = [w \in Workers |-> IF w <= nworkers THEN "loop" ELSE "idle"]
    /\ UNCHANGED <<treeVars, docVars, buildVars, it_keys, it_pos, cur, gen_ok, histVars,
                   task_dict, nworkers, run_no>>

NextBuild == GetTaskManagerStart \/ SelectItem \/ GetTaskManagerReturn
SpecBuild == Init /\ [][NextBuild]_vars

\* ------------------------------------------------------------------ TaskManager and worker
\* TaskManager.all_success
all_success == DOMAIN task_dict = {}

Keys(td) == SeqOfSet(DOMAIN td)

\* a dict iterator raises RuntimeError on next() once the dict changed size
IteratorValid(w) == Range(it_keys[w]) = DOMAIN task_dict

Running(w) == w \in Workers /\ w <= nworkers

\* worker, line 60: return when no task is left
WorkerCheck(w) ==
    /\ stage = "dispatch" /\ Running(w) /\ pc[w] = "loop"
    /\ pc' = [pc EXCEPT ![w] = IF all_success THEN "returned" ELSE "get_next_task"]
    /\ UNCHANGED <<treeVars, docVars, buildVars, it_keys, it_pos, cur, gen_ok, histVars,
                   stage, task_dict, nworkers, run_no>>

\* get_next_task, line 38: the iterator over task_dict.keys()
GetNextTaskBegin(w) ==
    /\ stage = "dispatch" /\ Running(w) /\ pc[w] = "get_next_task"
    /\ it_keys' = [it_keys EXCEPT ![w] = Keys(task_dict)]
    /\ it_pos' = [it_pos EXCEPT ![w] = 0]
    /\ pc' = [pc EXCEPT ![w] = "scan"]
    /\ UNCHANGED <<treeVars, docVars, buildVars, cur, gen_ok, histVars,
                   stage, task_dict, nworkers, run_no>>

\* the readiness test of lines 39-41
ready(td, t) == td[t].dependencies = {} /\ td[t].status = 0

\* get_next_task, lines 38-42: the next key and its readiness test;
\* line 48 and worker lines 63-65 when the keys are exhausted
GetNextTaskScan(w) ==
    /\ stage = "dispatch" /\ Running(w) /\ pc[w] = "scan"
    /\ IteratorValid(w)
    /\ IF it_pos[w] = Len(it_keys[w])
       THEN /\ pc' = [pc EXCEPT ![w] = "loop"]
            /\ UNCHANGED <<it_pos, cur>>
       ELSE LET t == it_keys[w][it_pos[w] + 1]
            IN IF ready(task_dict, t)
               THEN /\ pc' = [pc EXCEPT ![w] = "claim"]
                    /\ cur' = [cur EXCEPT ![w] = t]
                    /\ UNCHANGED it_pos
               ELSE /\ it_pos' = [it_pos EXCEPT ![w] = it_pos[w] + 1]
                    /\ UNCHANGED <<pc, cur>>
    /\ UNCHANGED <<treeVars, docVars, buildVars, it_keys, gen_ok, histVars,
                   stage, task_dict, nworkers, run_no>>

\* get_next_task, lines 43-47: mark the task and return it
GetNextTaskClaim(w) ==
    /\ stage = "dispatch" /\ Running(w) /\ pc[w] = "claim"
    /\ cur[w] \in DOMAIN task_dict
    /\ task_dict' = [task_dict EXCEPT ![cur[w]].status = 1]
    /\ handed' = [handed EXCEPT ![cur[w]] = @ + 1]
    /\ pc' = [pc EXCEPT ![w] = "handler"]
    /\ gen_ok' = [gen_ok EXCEPT ![w] = TRUE]
    /\ UNCHANGED <<treeVars, docVars, buildVars, it_keys, it_pos, cur,
                   completed, popped, failed_gen, generated, stage, nworkers, run_no>>

\* an exception leaves worker(): RuntimeError of a dict iterator whose dict
\* changed size (lines 38, 52), KeyError of task_dict[task_id] or pop (lines 43, 51, 55)
WorkerRaise(w) ==
    /\ stage = "dispatch" /\ Running(w)
    /\ \/ pc[w] \in {"scan", "purge"} /\ ~ IteratorValid(w)
       \/ pc[w] \in {"claim", "mark", "pop"} /\ cur[w] \notin DOMAIN task_dict
    /\ pc' = [pc EXCEPT ![w] = "raised"]
    /\ UNCHANGED <<treeVars, docVars, buildVars, it_keys, it_pos, cur, gen_ok, histVars,
                   stage, task_dict, nworkers, run_no>>

\* ------------------------------------------------------------------ generate_doc_for_a_single_item
\* the entity of the task a worker holds (task.extra_info, read at line 47)
ItemOf(t) == CHOOSE i \in Items : multithread_task_id[i] = t

\* lines 82-90: skip an entity that needs no generation, else call the generator
HandlerBegin(w) ==
    /\ stage = "dispatch" /\ Running(w) /\ pc[w] = "handler"
    /\ IF need_to_generate(ItemOf(cur[w]))
       THEN /\ pc' = [pc EXCEPT ![w] = "generate"]
            /\ UNCHANGED completed
       ELSE /\ pc' = [pc EXCEPT ![w] = "mark"]
            /\ completed' = completed \cup {cur[w]}
    /\ UNCHANGED <<treeVars, docVars, buildVars, it_keys, it_pos, cur, gen_ok,
                   handed, popped, failed_gen, generated, stage, task_dict, nworkers, run_no>>

\* GenerateReturns without line 95: the status is left as it was
GenerateReturns_StatusKept(w) ==
    /\ stage = "dispatch" /\ Running(w) /\ pc[w] = "generate"
    /\ md_content' = [md_content EXCEPT ![ItemOf(cur[w])] = Append(@, Len(@) + 1)]
    /\ generated' = [generated EXCEPT ![run_no] = @ \cup {ItemOf(cur[w])}]
    /\ pc' = [pc EXCEPT ![w] = "mark"]
    /\ completed' = completed \cup {cur[w]}
    /\ UNCHANGED <<treeVars, item_status, buildVars, it_keys, it_pos, cur, gen_ok,
                   handed, popped, failed_gen, stage, task_dict, nworkers, run_no>>

\* lines 91-98: the generator returned; append the doc, set the status, checkpoint
GenerateReturns(w) ==
    /\ stage = "dispatch" /\ Running(w) /\ pc[w] = "generate"
    /\ LET i == ItemOf(cur[w])
       IN /\ md_content' = [md_content EXCEPT ![i] = Append(@, Len(@) + 1)]
          /\ item_status' = [item_status EXCEPT ![i] = doc_up_to_date]
    /\ generated' = [generated EXCEPT ![run_no] = @ \cup {ItemOf(cur[w])}]
    /\ pc' = [pc EXCEPT ![w] = "mark"]
    /\ completed' = completed \cup {cur[w]}
    /\ UNCHANGED <<treeVars, buildVars, it_keys, it_pos, cur, gen_ok,
                   handed, popped, failed_gen, stage, task_dict, nworkers, run_no>>

\* GenerateRaises without the except clause: the exception leaves the handler
\* and worker()
GenerateRaises_Escapes(w) ==
    /\ stage = "dispatch" /\ Running(w) /\ pc[w] = "generate"
    /\ failed_gen' = [failed_gen EXCEPT ![run_no] = @ \cup {ItemOf(cur[w])}]
    /\ gen_ok' = [gen_ok EXCEPT ![w] = FALSE]
    /\ pc' = [pc EXCEPT ![w] = "raised"]
    /\ UNCHANGED <<treeVars, docVars, buildVars, it_keys, it_pos, cur,
                   handed, completed, popped, generated, stage, task_dict, nworkers, run_no>>

\* lines 99-103: the generator raised; the status falls back
GenerateRaises(w) ==
    /\ stage = "dispatch" /\ Running(w) /\ pc[w] = "generate"
    /\ item_status' = [item_status EXCEPT ![ItemOf(cur[w])] = doc_has_not_been_generated]
    /\ failed_gen' = [failed_gen EXCEPT ![run_no] = @ \cup {ItemOf(cur[w])}]
    /\ gen_ok' = [gen_ok EXCEPT ![w] = FALSE]
    /\ pc' = [pc EXCEPT ![w] = "mark"]
    /\ completed' = completed \cup {cur[w]}
    /\ UNCHANGED <<treeVars, md_content, buildVars, it_keys, it_pos, cur,
                   handed, popped, generated, stage, task_dict, nworkers, run_no>>

\* ------------------------------------------------------------------ mark_completed
\* line 51 and the iterator of line 52
MarkCompletedBegin(w) ==
    /\ stage = "dispatch" /\ Running(w) /\ pc[w] = "mark"
    /\ cur[w] \in DOMAIN task_dict
    /\ it_keys' = [it_keys EXCEPT ![w] = Keys(task_dict)]
    /\ it_pos' = [it_pos EXCEPT ![w] = 0]
    /\ pc' = [pc EXCEPT ![w] = "purge"]
    /\ UNCHANGED <<treeVars, docVars, buildVars, cur, gen_ok, histVars,
                   stage, task_dict, nworkers, run_no>>

\* lines 52-54: one round of the loop over task_dict.values()
MarkCompletedPurge(w) ==
    /\ stage = "dispatch" /\ Running(w) /\ pc[w] = "purge"
    /\ IteratorValid(w)
    /\ IF it_pos[w] = Len(it_keys[w])
       THEN /\ pc' = [pc EXCEPT ![w] = "pop"]
            /\ UNCHANGED <<it_pos, task_dict>>
       ELSE LET t == it_keys[w][it_pos[w] + 1]
            IN /\ task_dict' = [task_dict EXCEPT ![t].dependencies = @ \ {cur[w]}]
               /\ it_pos' = [it_pos EXCEPT ![w] = it_pos[w] + 1]
               /\ UNCHANGED pc
    /\ UNCHANGED <<treeVars, docVars, buildVars, it_keys, cur, gen_ok, histVars,
                   stage, nworkers, run_no>>

\* line 55
MarkCompletedPop(w) ==
    /\ stage = "dispatch" /\ Running(w) /\ pc[w] = "pop"
    /\ cur[w] \in DOMAIN task_dict
    /\ task_dict' = [t \in DOMAIN task_dict \ {cur[w]} |-> task_dict[t]]
    /\ popped' = popped \cup {cur[w]}
    /\ cur' = [cur EXCEPT ![w] = -1]
    /\ pc' = [pc EXCEPT ![w] = "loop"]
    /\ UNCHANGED <<treeVars, docVars, buildVars, it_keys, it_pos, gen_ok,
                   handed, completed, failed_gen, generated, stage, nworkers, run_no>>

\* ------------------------------------------------------------------ the run
\* worker() returned to Runner.run / first_generate: the run ends
RunEnds ==
    /\ stage = "dispatch"
    /\ \A w \in Workers : Running(w) => pc[w] = "returned"
    /\ stage' = "finished"
    /\ UNCHANGED <<treeVars, docVars, buildVars, workerVars, histVars,
                   task_dict, nworkers, run_no>>

\* the next run of the program on the unchanged repository: the tree is built
\* anew (multithread_task_id = -1) with the statuses and docs of the checkpoint
NextRun ==
    /\ stage = "finished"
    /\ run_no < MaxRuns
    /\ run_no' = run_no + 1
    /\ stage' = "start"
    /\ multithread_task_id' = [i \in Items |-> -1]
    /\ circle_log' = <<>>
    /\ sel_log' = <<>>
    /\ pc' = [w \in Workers |-> "idle"]
    /\ completed' = {}
    /\ popped' = {}
    /\ handed' = NoTaskDict
    /\ blocking0' = NoTaskDict
    /\ gen_ok' = [w \in Workers |-> TRUE]
    /\ UNCHANGED <<treeVars, docVars, doc_items, deal_items, now_id,
                   it_keys, it_pos, cur, failed_gen, generated, task_dict, nworkers>>

WorkerStep(w) ==
    \/ WorkerCheck(w)
    \/ GetNextTaskBegin(w)
    \/ GetNextTaskScan(w)
    \/ GetNextTaskClaim(w)
    \/ HandlerBegin(w)
    \/ GenerateReturns(w)
    \/ GenerateRaises(w)
    \/ MarkCompletedBegin(w)
    \/ MarkCompletedPurge(w)
    \/ MarkCompletedPop(w)

Next ==
    \/ NextBuild
    \/ \E w \in Workers : WorkerStep(w)
    \/ RunEnds
    \/ NextRun

Spec == Init /\ [][Next]_vars

\* the worker pool of the design: NumWorkers threads run worker() on one
\* TaskManager.  The trees of the pool runs: every entity needs work, no
\* ignore list, no special edge.
InitPool ==
    /\ InitTree
    /\ ignore_list = {}
    /\ \A i \in Items : item_status[i] = doc_has_not_been_generated
    /\ \A i \in Items : \A k \in DOMAIN special_reference_type[i] :
           ~ special_reference_type[i][k]
    /\ InitRun(NumWorkers)

NextPool ==
    \/ NextBuild
    \/ \E w \in Workers : WorkerStep(w) \/ WorkerRaise(w)
    \/ RunEnds

SpecPool == InitPool /\ [][NextPool]_vars

\* ------------------------------------------------------------------ notions the properties share
\* the tasks registered in this build
Registered == 0..(now_id - 1)

\* a task is in flight from the moment get_next_task returned it until
\* mark_completed removed it from the task map
InFlightTask(t) == t \in DOMAIN task_dict /\ task_dict[t].status = 1

InFlight(i) == multithread_task_id[i] # -1 /\ InFlightTask(multithread_task_id[i])

\* b is a structural child of a, or a references b
DependsOn(a, b) == father[b] = a \/ b \in Range(reference_who[a])

\* the same relation among the entities that need work
NeedsWorkEdge(a, b) == need_to_generate(a) /\ need_to_generate(b) /\ DependsOn(a, b)

RECURSIVE ReachableIn(_, _, _)
\* the entities reachable from the set S along NeedsWorkEdge in at most n steps
ReachableIn(S, n, acc) ==
    IF n = 0 THEN acc
    ELSE LET step == {b \in Items : \E a \in S : NeedsWorkEdge(a, b)}
         IN ReachableIn(step, n - 1, acc \cup step)

NeedsWorkAcyclic ==
    \A a \in Items : a \notin ReachableIn({a}, MaxItems, {})

Eligible == {i \in Items : need_to_generate(i)}

BuildDone == stage = "topology" /\ doc_items = <<>>

\* ------------------------------------------------------------------ C1
\* C1: a task is handed out by get_next_task only after the handler of every
\* task of its blocking set (as registered) has returned and mark_completed
\* has removed that task, for any number of workers and any interleaving.
C1_DependencySoundness ==
    \A t \in DOMAIN handed :
        handed[t] > 0 => blocking0[t] \subseteq (completed \cap popped)

\* ------------------------------------------------------------------ C2
\* C2: get_next_task returns no task to more than one worker.
C2_NoDoubleDispatch ==
    \A t \in DOMAIN handed : handed[t] <= 1

\* ------------------------------------------------------------------ C3
\* C3: never are two tasks in flight together when the entity of one is a
\* child of, or is referenced by, the entity of the other.
C3_NoDependentPairInFlight ==
    \A a, b \in Items :
        (a # b /\ InFlight(a) /\ InFlight(b)) => ~ DependsOn(a, b)

\* ------------------------------------------------------------------ C4
\* C4: the task of every registered entity has in its blocking set the task of
\* each of its children that needs work, also when a cycle was broken.
C4_ChildrenBlockParent ==
    stage = "topology" =>
        \A p \in Range(deal_items) :
            \A c \in Children(father, p) :
                need_to_generate(c) =>
                    multithread_task_id[c] \in blocking0[multithread_task_id[p]]

\* ------------------------------------------------------------------ C5
\* C5: when "is a child of, or is referenced by" has no cycle among the
\* entities that need work, every selection takes an entity with zero
\* unresolved blockers, no cycle-break line is logged, and every task has in its
\* blocking set the earlier-registered task of each child and each referenced
\* entity that needs work.
C5_AcyclicBuild ==
    (stage = "topology" /\ NeedsWorkAcyclic) =>
        /\ circle_log = <<>>
        /\ \A k \in DOMAIN sel_log : sel_log[k].best = 0 /\ sel_log[k].level = -1
        /\ \A a \in Range(deal_items) : \A b \in Items :
              NeedsWorkEdge(a, b) =>
                  /\ multithread_task_id[b] # -1
                  /\ multithread_task_id[b] < multithread_task_id[a]
                  /\ multithread_task_id[b] \in blocking0[multithread_task_id[a]]

\* an acyclic build is complete, with a reference (bar references foo) and a
\* child among the entities that need work
C5_Witness ==
    /\ BuildDone /\ NeedsWorkAcyclic
    /\ \E bar, foo \in Items :
          /\ foo \in Range(reference_who[bar])
          /\ need_to_generate(bar) /\ need_to_generate(foo)
          /\ multithread_task_id[foo] \in blocking0[multithread_task_id[bar]]
    /\ \E p, c \in Items : father[c] = p /\ need_to_generate(p) /\ need_to_generate(c)

\* ------------------------------------------------------------------ C7
\* the build neither raises nor loses or repeats an entity: with N eligible
\* entities it makes N selections and registers each as one task
BuildTerminates ==
    /\ stage # "raised"
    /\ stage = "topology" =>
          /\ Len(doc_items) + Len(deal_items) = Cardinality(Eligible)
          /\ Range(doc_items) \cup Range(deal_items) = Eligible
          /\ Range(doc_items) \cap Range(deal_items) = {}
          /\ Len(sel_log) = Len(deal_items)
          /\ now_id = Len(deal_items)
          /\ DOMAIN task_dict = Registered
          /\ \A i \in Range(deal_items) :
                /\ multithread_task_id[i] \in Registered
                /\ task_dict[multithread_task_id[i]].extra_info = i
          /\ \A t \in Registered :
                Cardinality({i \in Items : multithread_task_id[i] = t}) = 1

\* f and g reference each other, both need work, and the tree has no other
\* reference edge
MutualRecursion(f, g) ==
    /\ f # g
    /\ need_to_generate(f) /\ need_to_generate(g)
    /\ reference_who[f] = <<g>> /\ reference_who[g] = <<f>>
    /\ \A i \in Items \ {f, g} : reference_who[i] = <<>>

StrongEdges(f, g) ==
    special_reference_type[f] = <<FALSE>> /\ special_reference_type[g] = <<FALSE>>

\* both are registered, the later one blocked by the earlier one
RegisteredInTurn(f, g) ==
    /\ multithread_task_id[f] \in Registered /\ multithread_task_id[g] \in Registered
    /\ \/ multithread_task_id[f] \in blocking0[multithread_task_id[g]]
       \/ multithread_task_id[g] \in blocking0[multithread_task_id[f]]

C8_FailureContained ==
    failed_gen[run_no] # {} =>
        /\ \A w \in Workers : pc[w] # "raised"
        /\ \A w \in Workers :
              (Running(w) /\ ~ gen_ok[w] /\ pc[w] \in {"mark", "purge", "pop"}) =>
                  /\ item_status[ItemOf(cur[w])] = doc_has_not_been_generated
                  /\ cur[w] \in completed
        \* a worker that looks for a task while tasks remain finds one
        /\ \A w \in Workers :
              (stage = "dispatch" /\ Running(w) /\ pc[w] = "scan") =>
                  \E k \in (it_pos[w] + 1)..Len(it_keys[w]) : ready(task_dict, it_keys[w][k])
        /\ stage = "finished" =>
              /\ all_success
              /\ \A t \in Registered : handed[t] = 1 /\ t \in completed /\ t \in popped
              /\ \A e \in failed_gen[run_no] :
                    item_status[e] = doc_has_not_been_generated

\* a run is over in which the generator raised for e and a task that was
\* blocked by e's task has run
C8_Witness ==
    /\ stage = "finished"
    /\ \E e \in failed_gen[run_no] : \E t \in Registered :
          /\ multithread_task_id[e] \in blocking0[t]
          /\ t \in completed /\ t \in popped
          /\ ItemOf(t) \in generated[run_no]

\* ------------------------------------------------------------------ C9
\* C9: when every entity is doc_up_to_date, get_task_manager registers no
\* task; so the run that follows a run in which every generation succeeded
\* registers no task.
C9_Idempotent ==
    /\ (stage = "topology" /\ \A i \in Items : item_status[i] = doc_up_to_date) =>
              doc_items = <<>> /\ now_id = 0 /\ all_success
    /\ (run_no >= 2 /\ failed_gen[run_no - 1] = {}
          /\ stage \in {"topology", "dispatch", "finished"}) =>
              doc_items = <<>> /\ now_id = 0 /\ all_success

\* the second build is over after a first run that generated two documents
C9_Witness ==
    /\ run_no = 2 /\ BuildDone
    /\ failed_gen[1] = {}
    /\ Cardinality(generated[1]) >= 2
    /\ now_id = 0

\* ------------------------------------------------------------------ C6
\* C6: with a handler that always returns, every worker of the pool ends by
\* returning from worker(), and it returns only when the task map is empty and
\* every registered task was dispatched and completed.  (A worker that an
\* exception threw out of worker() never returns.)
C6_PoolTerminates ==
    \A w \in Workers :
        Running(w) =>
            /\ pc[w] # "raised"
            /\ pc[w] = "returned" =>
                  all_success /\ Registered \subseteq (completed \cap popped)

\* ------------------------------------------------------------------ load_doc_from_older_meta
\* The new tree is the one init_meta_info has just built: every entity has the
\* default status and no documentation, and no reference has been parsed.  The
\* key of a new entity in its father's children is its number; an older entity
\* has the same key, or (a negative number) a key the new tree does not have.
MaxHits == 1
MaxDiffs == 1

CodeTexts == {"old text", "new text"}
OldStatuses == {doc_up_to_date, doc_has_not_been_generated, add_new_referencer}

NotFound == -1

RECURSIVE find_item(_)
\* find_item(now_item): the item of the new tree with the same keys on its path
find_item(j) ==
    IF j = FileNode THEN FileNode
    ELSE LET father_find_result == find_item(old_father[j])
         IN IF father_find_result = NotFound THEN NotFound
            ELSE IF \E i \in Items : father[i] = father_find_result /\ i = old_key[j]
                 THEN old_key[j]
                 ELSE NotFound

RECURSIVE old_full_name(_)
\* get_full_name of an item of the older tree
old_full_name(j) ==
    IF j = FileNode THEN <<FileNode>>
    ELSE Append(old_full_name(old_father[j]), old_key[j])

\* the older item that find_item maps onto the new item i
OlderOf(i) == CHOOSE j \in Items : find_item(j) = i

HasOlder(i) == \E j \in Items : find_item(j) = i

\* travel without the comparison of the code contents (lines 703-709)
travel_status_NoCompare(i) ==
    IF ~ HasOlder(i) THEN item_status[i]
    ELSE old_item_status[OlderOf(i)]

\* travel, lines 699-709: the status the new item i is left with
travel_status(i) ==
    IF ~ HasOlder(i) THEN item_status[i]
    ELSE IF old_code_content[OlderOf(i)] # code_content[i] THEN code_changed
    ELSE old_item_status[OlderOf(i)]

\* travel, line 699
travel_md_content(i) ==
    IF ~ HasOlder(i) THEN md_content[i] ELSE old_md_content[OlderOf(i)]

\* travel, lines 693-698: the older items travel reaches and does not find
travel_deleted ==
    LET reached == SelectSeq(get_travel_list(old_father, FileNode),
                       LAMBDA j : /\ j # FileNode
                                  /\ find_item(old_father[j]) # NotFound
                                  /\ find_item(j) = NotFound)
    IN [k \in 1..Len(reached) |-> old_full_name(reached[k])]

\* lines 722-725
new_reference_names(i) == {get_full_name(r) : r \in Range(who_reference_me[i])}

\* travel2 with the test of line 731 turned round: "shrank" unless the old
\* names are among the new ones
travel2_status_Superset(i) ==
    IF ~ HasOlder(i) THEN item_status[i]
    ELSE LET old_reference_names == old_who_reference_me_name_list[OlderOf(i)]
         IN IF new_reference_names(i) # old_reference_names
               /\ item_status[i] = doc_up_to_date
            THEN IF old_reference_names \subseteq new_reference_names(i)
                 THEN add_new_referencer
                 ELSE referencer_not_exist
            ELSE item_status[i]

\* travel2 without the test of line 729: any status is overwritten
travel2_status_AnyStatus(i) ==
    IF ~ HasOlder(i) THEN item_status[i]
    ELSE LET old_reference_names == old_who_reference_me_name_list[OlderOf(i)]
         IN IF new_reference_names(i) # old_reference_names
            THEN IF new_reference_names(i) \subseteq old_reference_names
                 THEN referencer_not_exist
                 ELSE add_new_referencer
            ELSE item_status[i]

\* travel2, lines 728-734: the status the new item i is left with
travel2_status(i) ==
    IF ~ HasOlder(i) THEN item_status[i]
    ELSE LET old_reference_names == old_who_reference_me_name_list[OlderOf(i)]
         IN IF new_reference_names(i) # old_reference_names
               /\ item_status[i] = doc_up_to_date
            THEN IF new_reference_names(i) \subseteq old_reference_names
                 THEN referencer_not_exist
                 ELSE add_new_referencer
            ELSE item_status[i]

RECURSIVE check_has_task(_)
\* DocItem.check_has_task: has_task of the node n after the call on the root
check_has_task(n) ==
    \/ has_task[n]
    \/ need_to_generate(n)
    \/ \E c \in Children(father, n) : check_has_task(c)

\* A hit of find_all_referencer: the node find_obj_with_lineno finds at the
\* position, the entity looked for, and whether the position is on the first
\* line of a function-kind referencer
Hit(referencer_node, now_obj, on_start_line) ==
    [referencer |-> referencer_node, target |-> now_obj, special |-> on_start_line]

AllHits == {Hit(r, t, b) : r \in Nodes, t \in Items, b \in BOOLEAN}

RECURSIVE HitLists(_)
\* the lists of at most k hits
HitLists(k) ==
    IF k = 0 THEN {<<>>}
    ELSE LET P == HitLists(k - 1)
         IN P \cup {Append(p, h) : p \in P, h \in AllHits}

\* obj_name: the entities of the file have names of their own
obj_name(n) == n

\* the three lists with the edge of the hit h appended (lines 553-557)
append_edge(lists, h) ==
    [reference_who |-> [lists.reference_who EXCEPT ![h.referencer] = Append(@, h.target)],
     special_reference_type |->
         [lists.special_reference_type EXCEPT ![h.referencer] = Append(@, h.special)],
     who_reference_me |->
         [lists.who_reference_me EXCEPT ![h.target] = Append(@, h.referencer)]]

\* walk_hit without the test of line 543
walk_hit_NoAncestorTest(lists, h) ==
    IF h.referencer = FileNode \/ obj_name(h.referencer) = obj_name(h.target) THEN lists
    ELSE IF h.target \in Range(lists.reference_who[h.referencer]) THEN lists
    ELSE append_edge(lists, h)

\* walk_hit without the test of line 544
walk_hit_NoDuplicateTest(lists, h) ==
    IF obj_name(h.referencer) = obj_name(h.target) THEN lists
    ELSE IF has_ans_relation(father, h.target, h.referencer) THEN lists
    ELSE append_edge(lists, h)

\* lines 536-557: what one hit does to the three lists
walk_hit(lists, h) ==
    LET r == h.referencer
        t == h.target
    IN IF obj_name(r) = obj_name(t) THEN lists
       ELSE IF has_ans_relation(father, t, r) THEN lists
       ELSE IF t \in Range(lists.reference_who[r]) THEN lists
       ELSE append_edge(lists, h)

RECURSIVE walk_hits(_, _)
walk_hits(lists, hs) ==
    IF hs = <<>> THEN lists
    ELSE walk_hits(walk_hit(lists, Head(hs)), Tail(hs))

RECURSIVE walk_file(_, _, _)
\* walk_file over the entities in the order of the tree, each with its hits in
\* the order the resolver gave them
walk_file(lists, objs, H) ==
    IF objs = <<>> THEN lists
    ELSE walk_file(walk_hits(lists, SelectSeq(H, LAMBDA h : h.target = Head(objs))),
                   Tail(objs), H)

\* parse_reference with the resolver returning H: the lists it leaves
parse_reference(H) ==
    walk_file([reference_who |-> reference_who,
               special_reference_type |-> special_reference_type,
               who_reference_me |-> who_reference_me],
              Tail(get_travel_list(father, FileNode)), H)

schedVars == <<buildVars, workerVars, histVars, stage, task_dict, nworkers, run_no,
               diskVars, inputVars>>

InitReconcile ==
    /\ \E f \in TreeShapes : father = f /\ old_father = f
    /\ reference_who = [i \in Items |-> <<>>]
    /\ special_reference_type = [i \in Items |-> <<>>]
    /\ who_reference_me = [i \in Items |-> <<>>]
    /\ hits = <<>>
    /\ ignore_list \in {{}, {tree_path(father, 1)}}
    /\ item_status = [i \in Items |-> doc_has_not_been_generated]
    /\ md_content = [i \in Items |-> <<>>]
    /\ old_code_content = [i \in Items |-> "old text"]
    /\ code_content \in [Items -> CodeTexts]
    /\ old_key \in {k \in [Items -> {-i : i \in Items} \cup Items] :
                      \A j \in Items : k[j] \in {j, -j}}
    /\ Cardinality({i \in Items : code_content[i] # old_code_content[i] \/ old_key[i] # i})
          <= MaxDiffs
    /\ old_item_status \in [Items -> OldStatuses]
    /\ old_md_content = [i \in Items |->
                            IF old_item_status[i] = doc_has_not_been_generated
                            THEN <<>> ELSE <<1>>]
    /\ \E E \in SubsetsUpTo(EdgePairs(old_father), MaxHits) :
          old_who_reference_me_name_list =
              [j \in Items |-> {old_full_name(h[1]) : h \in {g \in E : g[2] = j}}]
    /\ has_task = [n \in Nodes |-> FALSE]
    /\ deleted_items = <<>>
    /\ rstage = "start"
    /\ InitSched(1)

\* lines 690-714: travel(older_meta.target_repo_hierarchical_tree)
Travel ==
    /\ rstage = "start"
    /\ item_status' = [i \in Items |-> travel_status(i)]
    /\ md_content' = [i \in Items |-> travel_md_content(i)]
    /\ deleted_items' = travel_deleted
    /\ rstage' = "travel"
    /\ UNCHANGED <<father, reference_who, special_reference_type, ignore_list, oldVars,
                   code_content, who_reference_me, hits, has_task, schedVars>>

\* line 716: parse_reference on the new tree
ParseReference ==
    /\ rstage = "travel"
    /\ \E H \in HitLists(MaxHits) :
          /\ hits' = H
          /\ reference_who' = parse_reference(H).reference_who
          /\ special_reference_type' = parse_reference(H).special_reference_type
          /\ who_reference_me' = parse_reference(H).who_reference_me
    /\ rstage' = "parsed"
    /\ UNCHANGED <<father, ignore_list, oldVars, docVars, code_content, has_task,
                   deleted_items, schedVars>>

\* lines 718-740: travel2, then the deleted list is stored
Travel2 ==
    /\ rstage = "parsed"
    /\ item_status' = [i \in Items |-> travel2_status(i)]
    /\ rstage' = "done"
    /\ UNCHANGED <<father, reference_who, special_reference_type, ignore_list, oldVars,
                   md_content, code_content, who_reference_me, hits, has_task,
                   deleted_items, schedVars>>

\* DocItem.check_has_task(root, ignore_list) on the merged tree
CheckHasTask ==
    /\ rstage = "done"
    /\ has_task' = [n \in Nodes |-> check_has_task(n)]
    /\ rstage' = "checked"
    /\ UNCHANGED <<father, reference_who, special_reference_type, ignore_list, oldVars,
                   docVars, code_content, who_reference_me, hits, deleted_items,
                   schedVars>>

NextReconcile == Travel \/ ParseReference \/ Travel2 \/ CheckHasTask

SpecReconcile == InitReconcile /\ [][NextReconcile]_vars

\* ------------------------------------------------------------------ C10
\* the two trees differ only in the code text of e
DifferOnlyInCodeOf(e) ==
    /\ old_father = father
    /\ \A i \in Items : old_key[i] = i
    /\ \A i \in Items : (code_content[i] # old_code_content[i]) <=> (i = e)

\* what is written in e is all that changed: the referencers of an entity are
\* those it had, give or take e
ReferencersDifferOnlyByE(e) ==
    \A u \in Items :
        LET old_reference_names == old_who_reference_me_name_list[u]
        IN (new_reference_names(u) \ old_reference_names)
              \cup (old_reference_names \ new_reference_names(u))
              \subseteq {get_full_name(e)}

Ancestors(e) == Range(tree_path(father, e)) \ {e}

Ignored(e) == \E ig \in ignore_list : StartsWith(get_full_name(e), ig)

ReferencersChanged(u) == new_reference_names(u) # old_who_reference_me_name_list[u]

\* the claim as stated: e is code_changed, every ancestor of e has a task, and
\* every other entity has the status and the doc versions of the older tree
C10_Original ==
    rstage = "checked" =>
        \A e \in Items :
            (DifferOnlyInCodeOf(e) /\ ReferencersDifferOnlyByE(e)) =>
                /\ item_status[e] = code_changed
                /\ \A a \in Ancestors(e) : has_task[a]
                /\ \A u \in Items \ (Ancestors(e) \cup {e}) :
                      /\ item_status[u] = old_item_status[u]
                      /\ md_content[u] = old_md_content[u]

\* C10: when the old and the new tree differ only in the code text of e, after
\* load_doc_from_older_meta and check_has_task e is code_changed; every ancestor
\* of e has has_task set unless the ignore list covers e; every entity that is
\* neither e nor an ancestor of e keeps its doc versions, and keeps its status
\* unless it was up to date and its set of referencers changed, and then it is
\* referencer_not_exist or add_new_referencer.
C10_Amended ==
    rstage = "checked" =>
        \A e \in Items :
            (DifferOnlyInCodeOf(e) /\ ReferencersDifferOnlyByE(e)) =>
                /\ item_status[e] = code_changed
                /\ ~ Ignored(e) => \A a \in Ancestors(e) : has_task[a]
                /\ \A u \in Items \ (Ancestors(e) \cup {e}) :
                      /\ md_content[u] = old_md_content[u]
                      /\ IF old_item_status[u] = doc_up_to_date /\ ReferencersChanged(u)
                         THEN item_status[u] \in {referencer_not_exist, add_new_referencer}
                         ELSE item_status[u] = old_item_status[u]

\* e has an entity above it and is not ignored, and an entity beside it that e
\* no longer references was up to date
C10_Witness ==
    /\ rstage = "checked"
    /\ \E e \in Items :
          /\ DifferOnlyInCodeOf(e) /\ ReferencersDifferOnlyByE(e)
          /\ father[e] # FileNode
          /\ ~ Ignored(e)
          /\ \E u \in Items \ (Ancestors(e) \cup {e}) :
                /\ old_item_status[u] = doc_up_to_date
                /\ item_status[u] = referencer_not_exist

\* ------------------------------------------------------------------ C11
CodeDiffers(i) == old_code_content[OlderOf(i)] # code_content[i]

\* the names of the referencers of i are not those its older item recorded
ReferencerNamesChanged(i) ==
    new_reference_names(i) # old_who_reference_me_name_list[OlderOf(i)]

\* C11: from the carry-over on, a new entity with an older counterpart has the
\* counterpart's doc versions; its status is code_changed whenever the code
\* contents differ, whatever happened to its referencers, and otherwise the
\* counterpart's status (which only the comparison of the referencers of an
\* up-to-date entity replaces).  A new entity without a counterpart keeps
\* doc_has_not_been_generated and has no doc version.
C11_CarryOver ==
    rstage # "start" =>
        \A i \in Items :
            IF HasOlder(i)
            THEN /\ md_content[i] = old_md_content[OlderOf(i)]
                 /\ CodeDiffers(i) => item_status[i] = code_changed
                 /\ (~ CodeDiffers(i) /\ rstage \in {"travel", "parsed"}) =>
                        item_status[i] = old_item_status[OlderOf(i)]
                 /\ (~ CodeDiffers(i) /\ rstage \in {"done", "checked"}) =>
                        \/ item_status[i] = old_item_status[OlderOf(i)]
                        \/ /\ old_item_status[OlderOf(i)] = doc_up_to_date
                           /\ item_status[i] \in {referencer_not_exist, add_new_referencer}
            ELSE /\ item_status[i] = doc_has_not_been_generated
                 /\ md_content[i] = <<>>

\* the merge is over for an entity that was up to date, whose code differs and
\* whose referencers changed as well
C11_Witness ==
    /\ rstage = "done"
    /\ \E i \in Items :
          /\ HasOlder(i)
          /\ CodeDiffers(i)
          /\ ReferencerNamesChanged(i)
          /\ old_item_status[OlderOf(i)] = doc_up_to_date
          /\ md_content[i] = <<1>>

\* ------------------------------------------------------------------ C12
\* C12: travel2 leaves an entity that the carry-over left up to date with
\* referencer_not_exist when the names of its referencers are a strict subset
\* of the older names, with add_new_referencer when they are not a subset of
\* them, and up to date when the two sets are equal.
C12_ReferencerStatus ==
    [][(rstage = "parsed" /\ rstage' = "done") =>
          \A i \in Items :
              (HasOlder(i) /\ item_status[i] = doc_up_to_date) =>
                  LET new == new_reference_names(i)
                      old == old_who_reference_me_name_list[OlderOf(i)]
                  IN item_status'[i] =
                        IF new \subseteq old /\ new # old THEN referencer_not_exist
                        ELSE IF ~ (new \subseteq old) THEN add_new_referencer
                        ELSE doc_up_to_date]_vars

\* an entity that was up to date lost a referencer and gained another one
C12_Witness ==
    /\ rstage = "done"
    /\ \E i \in Items :
          /\ HasOlder(i)
          /\ old_item_status[OlderOf(i)] = doc_up_to_date
          /\ ~ CodeDiffers(i)
          /\ old_who_reference_me_name_list[OlderOf(i)] \ new_reference_names(i) # {}
          /\ new_reference_names(i) \ old_who_reference_me_name_list[OlderOf(i)] # {}
          /\ item_status[i] = add_new_referencer

\* ------------------------------------------------------------------ C13
\* how often the older item j is named in the deleted list
TimesDeleted(j) ==
    Cardinality({k \in DOMAIN deleted_items : deleted_items[k] = old_full_name(j)})

\* C13: after the merge every older entity without a counterpart in the new
\* tree, a descendant of a removed entity included, is in the deleted list
\* exactly once, and no entity with a counterpart is in it.
C13_DeletedTracked ==
    rstage \in {"done", "checked"} =>
        \A j \in Items :
            TimesDeleted(j) = IF find_item(j) = NotFound THEN 1 ELSE 0

\* ------------------------------------------------------------------ parse_reference alone
\* parse_reference on a tree from_project_hierarchy_json has just built (the
\* call of get_topology): no list holds anything yet
MaxParseHits == 2

InitParse ==
    /\ father \in TreeShapes
    /\ reference_who = [i \in Items |-> <<>>]
    /\ special_reference_type = [i \in Items |-> <<>>]
    /\ who_reference_me = [i \in Items |-> <<>>]
    /\ hits = <<>>
    /\ ignore_list = {}
    /\ item_status = [i \in Items |-> doc_has_not_been_generated]
    /\ md_content = [i \in Items |-> <<>>]
    /\ code_content = [i \in Items |-> "old text"]
    /\ has_task = [n \in Nodes |-> FALSE]
    /\ old_father = father
    /\ old_key = [i \in Items |-> i]
    /\ old_item_status = item_status
    /\ old_md_content = md_content
    /\ old_code_content = code_content
    /\ old_who_reference_me_name_list = [i \in Items |-> {}]
    /\ deleted_items = <<>>
    /\ rstage = "fresh"
    /\ InitSched(1)

\* get_topology, line 641
ParseReferenceFresh ==
    /\ rstage = "fresh"
    /\ \E H \in HitLists(MaxParseHits) :
          /\ hits' = H
          /\ reference_who' = parse_reference(H).reference_who
          /\ special_reference_type' = parse_reference(H).special_reference_type
          /\ who_reference_me' = parse_reference(H).who_reference_me
    /\ rstage' = "parsed"
    /\ UNCHANGED <<father, ignore_list, oldVars, docVars, code_content, has_task,
                   deleted_items, schedVars>>

NextParse == ParseReferenceFresh

SpecParse == InitParse /\ [][NextParse]_vars

\* ------------------------------------------------------------------ C14
\* C14: after parse_reference no entity references itself, one of its
\* ancestors or one of its descendants, and none is referenced by one of them,
\* whatever the hits were.
C14_NoAncestorEdges ==
    rstage = "parsed" =>
        \A a \in Items :
            \A b \in Range(reference_who[a]) \cup Range(who_reference_me[a]) :
                a # b /\ ~ has_ans_relation(father, a, b)

\* the resolver reported a hit inside the entity, its father or a descendant,
\* and a hit that became an edge
C14_Witness ==
    /\ rstage = "parsed"
    /\ \E k \in DOMAIN hits :
          /\ hits[k].referencer # FileNode
          /\ has_ans_relation(father, hits[k].target, hits[k].referencer)
    /\ \E a \in Items : reference_who[a] # <<>>

\* ------------------------------------------------------------------ C15
NoDuplicates(s) == Cardinality(Range(s)) = Len(s)

\* C15: after parse_reference b is in reference_who of a exactly when a is in
\* who_reference_me of b, no list names an entity twice, and a hit of a in an
\* entity b of another name that is neither above nor below a gives the edge
\* in both lists.
C15_Bidirectional ==
    rstage = "parsed" =>
        /\ \A a, b \in Items :
              b \in Range(reference_who[a]) <=> a \in Range(who_reference_me[b])
        /\ \A a \in Items :
              NoDuplicates(reference_who[a]) /\ NoDuplicates(who_reference_me[a])
        /\ \A k \in DOMAIN hits :
              LET bar == hits[k].referencer
                  foo == hits[k].target
              IN (~ has_ans_relation(father, foo, bar)) =>
                    /\ foo \in Range(reference_who[bar])
                    /\ bar \in Range(who_reference_me[foo])

\* the resolver reported two hits of one entity inside one referencer
C15_Witness ==
    /\ rstage = "parsed"
    /\ Len(hits) = 2
    /\ hits[1].referencer \in Items
    /\ hits[1].referencer = hits[2].referencer
    /\ hits[1].target = hits[2].target
    /\ reference_who[hits[1].referencer] = <<hits[1].target>>
    /\ who_reference_me[hits[1].target] = <<hits[1].referencer>>

\* ------------------------------------------------------------------ C16
\* C16: need_to_generate is true of a node exactly when it is an entity of the
\* file (a class or a function, not the file itself), no entry of the ignore
\* list is a prefix of its full name, and its status is one of
\* doc_has_not_been_generated, code_changed, add_new_referencer and
\* referencer_not_exist.
C16_Eligibility ==
    \A n \in Nodes :
        need_to_generate(n) <=>
            /\ n \in Items
            /\ \A ig \in ignore_list : ~ StartsWith(get_full_name(n), ig)
            /\ item_status[n] \in {doc_has_not_been_generated, code_changed,
                                   add_new_referencer, referencer_not_exist}

\* the merge left one entity code_changed and another with changed referencers,
\* both to do, beside an entity that is up to date or ignored
C16_Witness ==
    /\ rstage = "done"
    /\ ~ need_to_generate(FileNode)
    /\ \E a, b, c \in Items :
          /\ item_status[a] = code_changed /\ need_to_generate(a)
          /\ item_status[b] \in {add_new_referencer, referencer_not_exist}
          /\ need_to_generate(b)
          /\ ~ need_to_generate(c)

\* ------------------------------------------------------------------ MetaInfo.checkpoint
\* what to_hierarchy_json writes of the tree: the status and the doc versions
\* of every entity
to_hierarchy_json ==
    [file |-> "written", item_status |-> item_status, md_content |-> md_content]

\* the dict of lines 391-397
meta_document ==
    [file |-> "written", doc_version |-> document_version,
     in_generation_process |-> in_generation_process]

runVars == <<buildVars, workerVars, histVars, stage, task_dict, nworkers, run_no, inputVars>>

\* the tree is as from_project_hierarchy_json built it, nothing is on disk
InitCheckpoint == InitParse

\* between two checkpoints: the documentation of an entity is generated
\* (runner.py, lines 94-95)
DocGenerated ==
    /\ cp_pc = "idle"
    /\ \E i \in Items :
          /\ item_status[i] # doc_up_to_date
          /\ item_status' = [item_status EXCEPT ![i] = doc_up_to_date]
          /\ md_content' = [md_content EXCEPT ![i] = Append(@, Len(@) + 1)]
    /\ UNCHANGED <<father, reference_who, special_reference_type, ignore_list, oldVars,
                   mergeVars, diskVars, runVars>>

\* between two checkpoints: a run starts or ends (runner.py, lines 113-114 and 127-130)
RunFlagChanges ==
    /\ cp_pc = "idle"
    /\ in_generation_process' = ~ in_generation_process
    /\ document_version' = IF in_generation_process THEN "head commit" ELSE document_version
    /\ UNCHANGED <<father, reference_who, special_reference_type, ignore_list, oldVars,
                   mergeVars, docVars, runVars, disk_hierarchy, disk_meta, cp_pc,
                   now_hierarchy_json, cp_before>>

\* lines 369-381: the call begins and builds the hierarchy document
CheckpointBegin ==
    /\ cp_pc = "idle"
    /\ now_hierarchy_json' = to_hierarchy_json
    /\ cp_before' = [hierarchy |-> disk_hierarchy, meta |-> disk_meta]
    /\ cp_pc' = "hierarchy"
    /\ UNCHANGED <<father, reference_who, special_reference_type, ignore_list, oldVars,
                   mergeVars, docVars, runVars, document_version, in_generation_process,
                   disk_hierarchy, disk_meta>>

\* lines 383-388: the hierarchy file is written; an IOError is logged and the
\* call goes on.  The error comes from open (the file is as it was) or from the
\* write (open has truncated the file and part of the document is in it).
WriteHierarchy ==
    /\ cp_pc = "hierarchy"
    /\ disk_hierarchy' \in {now_hierarchy_json, disk_hierarchy, Torn}
    /\ cp_pc' = "meta"
    /\ UNCHANGED <<father, reference_who, special_reference_type, ignore_list, oldVars,
                   mergeVars, docVars, runVars, document_version, in_generation_process,
                   disk_meta, now_hierarchy_json, cp_before>>

\* lines 390-403: the same for the meta file, then the call returns
WriteMeta ==
    /\ cp_pc = "meta"
    /\ disk_meta' \in {meta_document, disk_meta, Torn}
    /\ cp_pc' = "returned"
    /\ UNCHANGED <<father, reference_who, special_reference_type, ignore_list, oldVars,
                   mergeVars, docVars, runVars, document_version, in_generation_process,
                   disk_hierarchy, now_hierarchy_json, cp_before>>

\* the caller goes on
CheckpointReturn ==
    /\ cp_pc = "returned"
    /\ cp_pc' = "idle"
    /\ UNCHANGED <<father, reference_who, special_reference_type, ignore_list, oldVars,
                   mergeVars, docVars, runVars, document_version, in_generation_process,
                   disk_hierarchy, disk_meta, now_hierarchy_json, cp_before>>

NextCheckpoint ==
    \/ DocGenerated
    \/ RunFlagChanges
    \/ CheckpointBegin
    \/ WriteHierarchy
    \/ WriteMeta
    \/ CheckpointReturn

SpecCheckpoint == InitCheckpoint /\ [][NextCheckpoint]_vars

\* ------------------------------------------------------------------ C17
\* C17: when checkpoint returns, either both files hold the documents of the
\* state in memory at the call, or both are as they were before the call.
C17_AllOrNothing ==
    cp_pc = "returned" =>
        \/ disk_hierarchy = to_hierarchy_json /\ disk_meta = meta_document
        \/ disk_hierarchy = cp_before.hierarchy /\ disk_meta = cp_before.meta

\* ------------------------------------------------------------------ from_project_hierarchy_json
\* The records of one file are turned into entities: each record is attached
\* to the smallest other record that contains it, or to the file, under a
\* key of that container's children dict.
MaxRecords == 3
MaxLine == 3

RecordNames == {"f", "f_0"}
Lines == 1..MaxLine

\* a record of the input, lines 858-864
Record(name, code_start_line, code_end_line) ==
    [obj_name |-> name, code_start_line |-> code_start_line,
     code_end_line |-> code_end_line]

Records ==
    {r \in {Record(n, a, b) : n \in RecordNames, a \in Lines, b \in Lines} :
        r.code_start_line <= r.code_end_line}

RECURSIVE RecordLists(_)
RecordLists(k) ==
    IF k = 0 THEN {<<>>}
    ELSE LET P == RecordLists(k - 1)
         IN P \cup {Append(L, r) : L \in {Q \in P : Len(Q) = k - 1}, r \in Records}

\* potential_father before any record was found to contain the item
None == -1

\* DocItem.code_start_line / code_end_line: file_item is built without them
DefaultLine == -1

file_item == [obj_name |-> "file", code_start_line |-> DefaultLine,
              code_end_line |-> DefaultLine]

\* the DocItem behind a container: file_item or the record
DocItemOf(n) == IF n = FileNode THEN file_item ELSE obj_item_list[n]

code_contain_SameStartOnly(item, other_item) ==
    IF /\ other_item.code_end_line = item.code_end_line
       /\ other_item.code_start_line = item.code_start_line
    THEN FALSE
    ELSE ~ (other_item.code_start_line > item.code_start_line)

code_contain(item, other_item) ==
    IF /\ other_item.code_end_line = item.code_end_line
       /\ other_item.code_start_line = item.code_start_line
    THEN FALSE
    ELSE IF \/ other_item.code_end_line < item.code_end_line
            \/ other_item.code_start_line > item.code_start_line
         THEN FALSE
         ELSE TRUE

\* the loop over other_item, from the k-th record on
RECURSIVE scan_father(_, _, _, _)
scan_father(L, item, k, potential_father) ==
    IF k > Len(L) THEN potential_father
    ELSE scan_father(L, item, k + 1,
            IF /\ code_contain(L[item], L[k])
               /\ \/ potential_father = None
                  \/ (L[k].code_end_line - L[k].code_start_line)
                       < (L[potential_father].code_end_line
                            - L[potential_father].code_start_line)
            THEN k ELSE potential_father)

father_of(L, item) ==
    LET potential_father == scan_father(L, item, 1, None)
    IN IF potential_father = None THEN FileNode ELSE potential_father

\* the keys of a children dict
keys(dict) == {p[1] : p \in dict}

\* child_name + f"_{now_name_id}"
suffixed(child_name, now_name_id) == child_name \o "_" \o ToString(now_name_id)

RECURSIVE free_name_id(_, _, _)
free_name_id(dict, child_name, now_name_id) ==
    IF suffixed(child_name, now_name_id) \in keys(dict)
    THEN free_name_id(dict, child_name, now_name_id + 1)
    ELSE now_name_id

child_key_NoSuffix(dict, child_name) == child_name

child_key(dict, child_name) ==
    IF child_name \in keys(dict)
    THEN suffixed(child_name, free_name_id(dict, child_name, 0))
    ELSE child_name

\* dict[key] = value
dict_set(dict, key, value) == {p \in dict : p[1] # key} \cup {<<key, value>>}

\* the scheduler's tree is not in use while the inputs are read
InitBlankTree ==
    /\ father = [i \in Items |-> FileNode]
    /\ reference_who = [i \in Items |-> <<>>]
    /\ special_reference_type = [i \in Items |-> <<>>]
    /\ who_reference_me = [i \in Items |-> <<>>]
    /\ hits = <<>>
    /\ ignore_list = {}
    /\ item_status = [i \in Items |-> doc_has_not_been_generated]
    /\ md_content = [i \in Items |-> <<>>]
    /\ code_content = [i \in Items |-> "old text"]
    /\ has_task = [n \in Nodes |-> FALSE]
    /\ old_father = father
    /\ old_key = [i \in Items |-> i]
    /\ old_item_status = item_status
    /\ old_md_content = md_content
    /\ old_code_content = code_content
    /\ old_who_reference_me_name_list = [i \in Items |-> {}]
    /\ deleted_items = <<>>
    /\ rstage = "none"
    /\ InitSchedOnly(1)

InitHierarchy ==
    /\ obj_item_list \in RecordLists(MaxRecords)
    /\ item_father = <<>>
    /\ children = [c \in 0..Len(obj_item_list) |-> {}]
    /\ attach_pos = 0
    /\ InitNoCalls
    /\ InitNoSearch
    /\ InitNoBoot /\ InitNoKinds /\ InitNoTrip
    /\ InitBlankTree

\* one turn of the loop of lines 878-919
AttachItem ==
    /\ attach_pos < Len(obj_item_list)
    /\ LET item == attach_pos + 1
           potential_father == father_of(obj_item_list, item)
           child_name == child_key(children[potential_father],
                                   obj_item_list[item].obj_name)
       IN /\ item_father' = Append(item_father, potential_father)
          /\ children' = [children EXCEPT
                            ![potential_father] = dict_set(@, child_name, item)]
          /\ attach_pos' = item
    /\ UNCHANGED <<obj_item_list, coreVars, sccVars, refVars, bootVars, weakVars, tripVars>>

NextHierarchy == AttachItem

SpecHierarchy == InitHierarchy /\ [][NextHierarchy]_vars

\* ------------------------------------------------------------------ C18
Attached == 1..attach_pos

Contains(f, e) ==
    /\ DocItemOf(f).code_start_line <= DocItemOf(e).code_start_line
    /\ DocItemOf(e).code_end_line <= DocItemOf(f).code_end_line

\* C18 as stated: every attached entity lies within the line range of its
\* father, whatever the father is (the file included).
C18_Original ==
    \A e \in Attached : Contains(item_father[e], e)

\* C18: every attached entity whose father is a record lies within the line
\* range of that record; the file carries no line range (both lines are -1),
\* so no entity directly below it lies within its range.
C18_Amended ==
    \A e \in Attached :
        IF item_father[e] = FileNode
        THEN /\ file_item.code_start_line = DefaultLine
             /\ file_item.code_end_line = DefaultLine
             /\ ~ Contains(FileNode, e)
        ELSE Contains(item_father[e], e)

C18_Witness ==
    /\ attach_pos = Len(obj_item_list)
    /\ \E e \in Attached : item_father[e] = FileNode
    /\ \E e \in Attached :
          /\ item_father[e] # FileNode
          /\ item_father[item_father[e]] # FileNode

\* ------------------------------------------------------------------ C19
Containers == DOMAIN children

\* the keys under which record i is found in its father's children dict
keys_of(i) == {p[1] : p \in {q \in children[item_father[i]] : q[2] = i}}

\* the keys its father's dict held when record i was attached
keys_before(i) == {p[1] : p \in {q \in children[item_father[i]] : q[2] < i}}

\* the smallest suffix number that gives record i a key not yet in use
first_free(i) ==
    CHOOSE n \in 0..MaxRecords :
        /\ suffixed(obj_item_list[i].obj_name, n) \notin keys_before(i)
        /\ \A m \in 0..(n - 1) :
              suffixed(obj_item_list[i].obj_name, m) \in keys_before(i)

\* C19: every attached record is stored under exactly one key of its father's
\* children dict: its name when no earlier sibling holds that key, else its
\* name followed by the first free suffix _0, _1, ...; every key leads to one
\* record, and the entities below the file are as many as the records attached.
C19_NameCollision ==
    /\ \A i \in Attached :
          keys_of(i) =
             {IF obj_item_list[i].obj_name \in keys_before(i)
              THEN suffixed(obj_item_list[i].obj_name, first_free(i))
              ELSE obj_item_list[i].obj_name}
    /\ \A c \in Containers : \A p, q \in children[c] : p[1] = q[1] => p = q
    /\ \A c \in Containers : \A p \in children[c] : item_father[p[2]] = c
    /\ Cardinality(UNION {{p[2] : p \in children[c]} : c \in Containers}) = attach_pos

C19_Witness ==
    /\ attach_pos = Len(obj_item_list)
    /\ \E i, j \in Attached :
          /\ i < j
          /\ item_father[i] = item_father[j]
          /\ obj_item_list[i].obj_name = obj_item_list[j].obj_name
          /\ keys_of(j) = {"f_1"}

\* ------------------------------------------------------------------ _compute_scc_and_compress
\* The raw call graph holds a key for every function defined and for every
\* function called (process_file), so every callee is a key.  The keys are
\* taken in the order of FuncNames; the graphs range over all sets of at most
\* MaxCalls calls between them.
MaxFuncs == 4
MaxCalls == 4

FuncNames == <<"a", "b", "c", "d", "e", "f">>
Funcs == {FuncNames[i] : i \in 1..MaxFuncs}

\* list(self.call_graph.keys())
call_graph_keys == SubSeq(FuncNames, 1, MaxFuncs)

CallSets == SubsetsUpTo(Funcs \X Funcs, MaxCalls)

\* the orders in which iterating over a set can yield its elements
Orders(S) ==
    {o \in [1..Cardinality(S) -> S] : \A i, j \in 1..Cardinality(S) : o[i] = o[j] => i = j}

MinOf(S) == CHOOSE x \in S : \A y \in S : x <= y
MaxOf(S) == CHOOSE x \in S : \A y \in S : x >= y

TopOf(s) == s[Len(s)]
Pop(s) == SubSeq(s, 1, Len(s) - 1)

RECURSIVE push_all(_, _)
push_all(s, nodes) ==
    IF nodes = <<>> THEN s
    ELSE push_all(Append(s, <<Head(nodes), 0>>), Tail(nodes))

\* the while True loop of lines 209-214: what it pops, first popped first
RECURSIVE popped_until(_, _)
popped_until(s, current) ==
    IF TopOf(s) = current THEN <<current>>
    ELSE <<TopOf(s)>> \o popped_until(Pop(s), current)

InitScc ==
    /\ \E E \in CallSets : calls = [u \in Funcs |-> {v \in Funcs : <<u, v>> \in E}]
    /\ scc_pc = "loop"
    /\ key_pos = 0
    /\ dfs_stack = <<>>
    /\ index_counter = 0
    /\ index = [n \in Funcs |-> NotIn]
    /\ lowlink = [n \in Funcs |-> NotIn]
    /\ stack = <<>>
    /\ on_stack = [n \in Funcs |-> FALSE]
    /\ sccs = <<>>
    /\ component_of = [n \in Funcs |-> NotIn]
    /\ compressed_graph = <<>>
    /\ InitNoRecords
    /\ InitNoSearch
    /\ InitNoBoot /\ InitNoKinds /\ InitNoTrip
    /\ InitBlankTree

restVars == <<coreVars, hierVars, refVars, bootVars, weakVars, tripVars>>

\* lines 184-186: the outer loop takes the next key
NextKey ==
    /\ scc_pc = "loop"
    /\ dfs_stack = <<>>
    /\ key_pos < Len(call_graph_keys)
    /\ key_pos' = key_pos + 1
    /\ dfs_stack' = IF index[call_graph_keys[key_pos + 1]] = NotIn
                    THEN << <<call_graph_keys[key_pos + 1], 0>> >>
                    ELSE dfs_stack
    /\ UNCHANGED <<calls, scc_pc, index_counter, index, lowlink, stack, on_stack, sccs,
                   component_of, compressed_graph, restVars>>

\* lines 188-202: a pair with stage 0 is popped
EnterNode ==
    /\ scc_pc = "loop"
    /\ dfs_stack # <<>>
    /\ TopOf(dfs_stack)[2] = 0
    /\ LET current == TopOf(dfs_stack)[1]
           new_index == [index EXCEPT ![current] = index_counter]
           new_on_stack == [on_stack EXCEPT ![current] = TRUE]
       IN /\ index' = new_index
          /\ index_counter' = index_counter + 1
          /\ stack' = Append(stack, current)
          /\ on_stack' = new_on_stack
          /\ lowlink' = [lowlink EXCEPT ![current] =
                MinOf({index_counter} \cup
                      {new_index[n] : n \in {m \in calls[current] :
                                   new_index[m] # NotIn /\ new_on_stack[m]}})]
          /\ \E o \in Orders({n \in calls[current] : new_index[n] = NotIn}) :
                dfs_stack' = push_all(Append(Pop(dfs_stack), <<current, 1>>), o)
    /\ UNCHANGED <<calls, scc_pc, key_pos, sccs, component_of, compressed_graph, restVars>>

\* lines 203-215: a pair with stage 1 is popped
LeaveNode ==
    /\ scc_pc = "loop"
    /\ dfs_stack # <<>>
    /\ TopOf(dfs_stack)[2] = 1
    /\ LET current == TopOf(dfs_stack)[1]
           new_lowlink == [lowlink EXCEPT ![current] =
                MinOf({lowlink[current]} \cup
                      {lowlink[n] : n \in {m \in calls[current] : on_stack[m]}})]
       IN /\ lowlink' = new_lowlink
          /\ dfs_stack' = Pop(dfs_stack)
          /\ IF new_lowlink[current] # index[current]
             THEN UNCHANGED <<stack, on_stack, sccs, scc_pc>>
             ELSE IF current \notin Range(stack)
             THEN \* stack.pop() on the empty list raises IndexError
                  /\ scc_pc' = "raised"
                  /\ stack' = <<>>
                  /\ on_stack' = [n \in Funcs |-> on_stack[n] /\ n \notin Range(stack)]
                  /\ UNCHANGED sccs
             ELSE LET scc == popped_until(stack, current)
                  IN /\ stack' = SubSeq(stack, 1, Len(stack) - Len(scc))
                     /\ on_stack' = [n \in Funcs |-> on_stack[n] /\ n \notin Range(scc)]
                     /\ sccs' = Append(sccs, scc)
                     /\ UNCHANGED scc_pc
    /\ UNCHANGED <<calls, key_pos, index_counter, index, component_of, compressed_graph,
                   restVars>>

\* line 218: a later component replaces an earlier one that holds the node
component_of_in(comps, node) ==
    IF \E k \in 1..Len(comps) : node \in Range(comps[k])
    THEN MaxOf({k \in 1..Len(comps) : node \in Range(comps[k])}) - 1
    ELSE NotIn

\* lines 220-226
outgoing(comps, cid) ==
    {component_of_in(comps, nbr) :
        nbr \in {n \in UNION {calls[node] : node \in Range(comps[cid + 1])} :
                    /\ component_of_in(comps, n) # NotIn
                    /\ component_of_in(comps, n) # cid}}

\* lines 217-229: the outer loop is over
Compress ==
    /\ scc_pc = "loop"
    /\ dfs_stack = <<>>
    /\ key_pos = Len(call_graph_keys)
    /\ component_of' = [n \in Funcs |-> component_of_in(sccs, n)]
    /\ compressed_graph' =
          [cid \in 0..(Len(sccs) - 1) |->
              [nodes |-> sccs[cid + 1], calls |-> outgoing(sccs, cid)]]
    /\ scc_pc' = "done"
    /\ UNCHANGED <<calls, key_pos, dfs_stack, index_counter, index, lowlink, stack,
                   on_stack, sccs, restVars>>

NextScc == NextKey \/ EnterNode \/ LeaveNode \/ Compress

SpecScc == InitScc /\ [][NextScc]_vars

\* ------------------------------------------------------------------ C20
Components == DOMAIN compressed_graph

nodes_of(c) == Range(compressed_graph[c].nodes)

SomeCall(c, d) == \E u \in nodes_of(c), v \in nodes_of(d) : v \in calls[u]

\* the call graph a->b->c->a plus c->d, under a naming of its four functions
ScenarioNames == {"a", "b", "c", "d"}

Namings == {r \in [ScenarioNames -> Funcs] : \A x, y \in ScenarioNames : r[x] = r[y] => x = y}

IsScenario(r) ==
    \A u, v \in Funcs :
        v \in calls[u] <=>
            <<u, v>> \in {<<r["a"], r["b"]>>, <<r["b"], r["c"]>>,
                          <<r["c"], r["a"]>>, <<r["c"], r["d"]>>}

ScenarioResult(r) ==
    \E c, d \in Components :
        /\ nodes_of(c) = {r["a"], r["b"], r["c"]}
        /\ nodes_of(d) = {r["d"]}
        /\ compressed_graph[c].calls = {d}
        /\ \A e \in Components \ {c} :
              /\ compressed_graph[e].calls = {}
              /\ nodes_of(e) \cap nodes_of(c) = {}
              /\ e # d => nodes_of(e) \cap nodes_of(d) = {}

ExactEdges ==
    \A c, d \in Components :
        d \in compressed_graph[c].calls <=> (c # d /\ SomeCall(c, d))

C20_ScenarioOnly ==
    scc_pc = "done" => \A r \in Namings : IsScenario(r) => ScenarioResult(r)

\* C20: in the condensed graph a component has an edge to another component
\* exactly when one of its functions calls one of the other's, none has an
\* edge to itself, and the graph a->b->c->a plus c->d gives the components
\* {a,b,c} and {d} with the single edge from the first to the second.
C20_CondensedGraph ==
    scc_pc = "done" =>
        /\ ExactEdges
        /\ \A c \in Components : c \notin compressed_graph[c].calls
        /\ \A r \in Namings : IsScenario(r) => ScenarioResult(r)

\* ------------------------------------------------------------------ C22
\* the functions reachable from u along at most k call edges
RECURSIVE CallsWithin(_, _)
CallsWithin(u, k) ==
    IF k = 0 THEN {u}
    ELSE LET R == CallsWithin(u, k - 1)
         IN R \cup UNION {calls[v] : v \in R}

Reaches(u, v) == v \in CallsWithin(u, MaxFuncs)

ComponentsOf(n) == {k \in 1..Len(sccs) : n \in Range(sccs[k])}

\* C22: when the search is over, every function is in exactly one component,
\* listed once, and two functions share a component exactly when each is
\* reachable from the other along call edges.
C22_SccPartition ==
    scc_pc = "done" =>
        /\ \A n \in Funcs : Cardinality(ComponentsOf(n)) = 1
        /\ \A k \in 1..Len(sccs) : Cardinality(Range(sccs[k])) = Len(sccs[k])
        /\ \A u, v \in Funcs :
              (ComponentsOf(u) \cap ComponentsOf(v) # {}) <=> (Reaches(u, v) /\ Reaches(v, u))

\* ------------------------------------------------------------------ find_all_referencer
\* The occurrences of one identifier in a repository of two files.  An
\* occurrence is <<file, line, column>>; ref_matches holds the occurrences
\* that the search itself finds (same name, kept by the scope and import
\* filters), the origin among them.
MaxRefLine == 2
MaxRefMatches == 3

RefFiles == {"m1.py", "m2.py"}
RefColumns == {0, 4}
Occurrences == RefFiles \X (1..MaxRefLine) \X RefColumns

InitSearch ==
    /\ ref_origin \in Occurrences
    /\ ref_matches \in {M \in SubsetsUpTo(Occurrences, MaxRefMatches) : ref_origin \in M}
    /\ in_file_only \in BOOLEAN
    /\ ref_result = {}
    /\ ref_pc = "asked"
    /\ InitNoRecords
    /\ InitNoCalls
    /\ InitNoBoot /\ InitNoKinds /\ InitNoTrip
    /\ InitBlankTree

\* doc_meta_info.find_all_referencer, lines 275-289: script.get_references
\* with scope="file" or without, then the filter on line and column
jedi_find_all_referencer ==
    LET references == IF in_file_only
                      THEN {m \in ref_matches : m[1] = ref_origin[1]}
                      ELSE ref_matches
    IN {ref \in references : ~ (ref[2] = ref_origin[2] /\ ref[3] = ref_origin[3])}

\* ReferenceFinder.find_references_in_file, lines 319-334
find_references_in_file(file_path, origin_line, origin_column) ==
    {m \in {n \in ref_matches : n[1] = file_path} :
        ~ (m[2] = origin_line /\ m[3] = origin_column)}

\* ReferenceFinder.find_references_in_repo, lines 626-643
find_references_in_repo(origin_line, origin_column) ==
    UNION {find_references_in_file(file_path, origin_line, origin_column) :
              file_path \in RefFiles}

\* ReferenceFinder.get_references, lines 694-714: a list of ReferenceObject
get_references(scope) ==
    IF scope = "file"
    THEN find_references_in_file(ref_origin[1], ref_origin[2], ref_origin[3])
    ELSE find_references_in_repo(ref_origin[2], ref_origin[3])

\* references_finder.find_all_referencer, lines 751-792: the comprehension of
\* lines 781-785 unpacks each ReferenceObject into three names, which raises
\* TypeError as soon as the list holds one; the except of line 790 returns []
ts_find_all_referencer ==
    LET references == get_references(IF in_file_only THEN "file" ELSE "project")
    IN IF references # {}
       THEN {}
       ELSE {ref \in references : ref # ref_origin}

FindAllReferencerJedi ==
    /\ ref_pc = "asked"
    /\ ref_result' = jedi_find_all_referencer
    /\ ref_pc' = "doc_meta_info.find_all_referencer"
    /\ UNCHANGED <<ref_matches, ref_origin, in_file_only, coreVars, hierVars, sccVars,
                   bootVars, weakVars, tripVars>>

GetReferences ==
    /\ ref_pc = "asked"
    /\ ref_result' = get_references(IF in_file_only THEN "file" ELSE "project")
    /\ ref_pc' = "ReferenceFinder.get_references"
    /\ UNCHANGED <<ref_matches, ref_origin, in_file_only, coreVars, hierVars, sccVars,
                   bootVars, weakVars, tripVars>>

FindAllReferencer ==
    /\ ref_pc = "asked"
    /\ ref_result' = ts_find_all_referencer
    /\ ref_pc' = "references_finder.find_all_referencer"
    /\ UNCHANGED <<ref_matches, ref_origin, in_file_only, coreVars, hierVars, sccVars,
                   bootVars, weakVars, tripVars>>

NextSearch == FindAllReferencerJedi \/ GetReferences \/ FindAllReferencer

SpecSearch == InitSearch /\ [][NextSearch]_vars

\* ------------------------------------------------------------------ C21
Answered == ref_pc \notin {"idle", "asked"}

\* the occurrences the caller is to get: all but the origin, in the origin
\* file only when in_file_only is set
OtherOccurrences ==
    {m \in ref_matches : m # ref_origin /\ (in_file_only => m[1] = ref_origin[1])}

\* C21: the answer never holds the origin, holds only occurrences of the
\* origin file in file-only mode, and leaves out no other occurrence: one in
\* another file at the origin's line and column is returned.
C21_AllButOrigin ==
    Answered =>
        /\ ref_origin \notin ref_result
        /\ in_file_only => \A r \in ref_result : r[1] = ref_origin[1]
        /\ OtherOccurrences \subseteq ref_result

\* ------------------------------------------------------------------ C23
\* the entities registered before the k-th registration of this build
RegisteredBefore(k) == {deal_items[j] : j \in 1..(k - 1)}

\* C23: the k-th entity registered gets task id k-1, and the blocking set of
\* its task is the set of the task ids of its children and of its referenced
\* entities that were registered before it; so every id in a blocking set is
\* smaller than the id of the task that holds it.
C23_BlockingSet ==
    stage = "topology" =>
        \A k \in 1..Len(deal_items) :
            LET e == deal_items[k]
                t == multithread_task_id[e]
            IN /\ t = k - 1
               /\ blocking0[t] =
                     {multithread_task_id[x] :
                         x \in (Children(father, e) \cup Range(reference_who[e]))
                                  \cap RegisteredBefore(k)}
               /\ \A d \in blocking0[t] : d \in 0..(t - 1)

\* a build is complete in which one task waits for the task of a child and
\* for the task of a referenced entity
C23_Witness ==
    /\ BuildDone
    /\ \E e, c, r \in Range(deal_items) :
          /\ father[c] = e
          /\ r \in Range(reference_who[e]) /\ r # c
          /\ {multithread_task_id[c], multithread_task_id[r]}
                \subseteq blocking0[multithread_task_id[e]]

\* ------------------------------------------------------------------ C24
\* the selections made while no remaining entity had zero unresolved
\* blockers: the loop over doc_items ended without its break
ForcedSelections == {k \in DOMAIN sel_log : sel_log[k].level # -1}

\* C24: every selection made while no remaining entity has zero unresolved
\* blockers logs one cycle-break line, whatever the blockers of the selected
\* entity are.
C24_CycleBreakLogged ==
    /\ Len(circle_log) = Cardinality(ForcedSelections)
    /\ \A k \in ForcedSelections :
          \E j \in DOMAIN circle_log : circle_log[j][2] = sel_log[k].item

\* ------------------------------------------------------------------ a start on a checkpoint
\* One process holds the tree with its reference lists and writes a
\* checkpoint; the next process (Runner.__init__, then Runner.run) loads it.
\* The name lists a checkpoint holds are loaded into reference_who_name_list
\* and who_reference_me_name_list, which neither parse_reference nor
\* get_task_manager reads; they are left out of the document.
Revisions == {"", "rev"}

\* to_hierarchy_json(flash_reference_relation): what it writes of the status,
\* the doc versions and the flags of every entity.  The content of a tree
\* built by init_meta_info has no key "special_reference_type".
hierarchy_json(flash_reference_relation) ==
    [file |-> "written", item_status |-> item_status, md_content |-> md_content,
     has_special_reference_type |-> flash_reference_relation,
     special_reference_type |->
         IF flash_reference_relation THEN special_reference_type
         ELSE [i \in Items |-> <<>>]]

InitBoot ==
    /\ InitTree
    /\ InitNoMerge
    /\ InitNoRecords /\ InitNoCalls /\ InitNoSearch /\ InitNoKinds /\ InitNoTrip
    /\ InitSchedOnly(1)
    /\ boot = "running"
    /\ live_reference_who = reference_who

\* MetaInfo.checkpoint, both files written: by generate_doc_for_a_single_item
\* and first_generate without the reference relation, by Runner.run with it
\* (after a first_generate that failed the version is still empty and the run
\* is still marked as in progress)
CheckpointWritten ==
    /\ boot = "running"
    /\ \E flash \in BOOLEAN, rev \in Revisions, in_progress \in BOOLEAN :
          /\ (flash /\ rev = "") => in_progress
          /\ document_version' = rev
          /\ in_generation_process' = in_progress
          /\ disk_hierarchy' = hierarchy_json(flash)
          /\ disk_meta' = [file |-> "written", doc_version |-> rev,
                           in_generation_process |-> in_progress]
    /\ boot' = "written"
    /\ UNCHANGED <<father, reference_who, special_reference_type, ignore_list, oldVars,
                   mergeVars, cp_pc, now_hierarchy_json, cp_before, docVars, buildVars,
                   workerVars, histVars, stage, task_dict, nworkers, run_no,
                   hierVars, sccVars, refVars, live_reference_who, weakVars, tripVars>>

\* Runner.__init__, lines 55-59: from_checkpoint_path builds the tree from the
\* document (from_project_hierarchy_json, lines 857-876) and the checkpoint of
\* line 59 writes the same document back
LoadCheckpoint ==
    /\ boot = "written"
    /\ item_status' = disk_hierarchy.item_status
    /\ md_content' = disk_hierarchy.md_content
    /\ special_reference_type' =
          IF disk_hierarchy.has_special_reference_type
          THEN disk_hierarchy.special_reference_type
          ELSE [i \in Items |-> <<>>]
    /\ reference_who' = [i \in Items |-> <<>>]
    /\ who_reference_me' = [i \in Items |-> <<>>]
    /\ document_version' = disk_meta.doc_version
    /\ in_generation_process' = disk_meta.in_generation_process
    /\ boot' = "loaded"
    /\ UNCHANGED <<father, ignore_list, oldVars, code_content, hits, has_task,
                   deleted_items, rstage, disk_hierarchy, disk_meta, cp_pc,
                   now_hierarchy_json, cp_before, buildVars, workerVars, histVars, stage,
                   task_dict, nworkers, run_no, hierVars, sccVars, refVars,
                   live_reference_who, weakVars, tripVars>>

\* Runner.run, line 244, first_generate, get_topology line 641
ParseReferenceLoaded ==
    /\ boot = "loaded"
    /\ document_version = ""
    /\ \E H \in HitLists(MaxHits) :
          /\ hits' = H
          /\ reference_who' = parse_reference(H).reference_who
          /\ special_reference_type' = parse_reference(H).special_reference_type
          /\ who_reference_me' = parse_reference(H).who_reference_me
    /\ boot' = "parsed"
    /\ UNCHANGED <<father, ignore_list, oldVars, code_content, has_task, deleted_items,
                   rstage, diskVars, docVars, buildVars, workerVars, histVars, stage,
                   task_dict, nworkers, run_no, hierVars, sccVars, refVars,
                   live_reference_who, weakVars, tripVars>>

\* get_task_manager is called by get_topology after parse_reference (line 642)
\* and by Runner.run (line 266), which skips lines 252-260 when the checkpoint
\* says that a run is in progress
BuildOnLoaded ==
    /\ \/ boot = "parsed"
       \/ boot = "loaded" /\ document_version # "" /\ in_generation_process
    /\ GetTaskManagerStart

NextBoot ==
    \/ CheckpointWritten
    \/ LoadCheckpoint
    \/ ParseReferenceLoaded
    \/ BuildOnLoaded
    \/ SelectItem

SpecBoot == InitBoot /\ [][NextBoot]_vars

\* ------------------------------------------------------------------ C25
\* the flag of the first hit that makes r reference t
FlagOfEdge(r, t) ==
    LET K == {k \in DOMAIN hits : hits[k].referencer = r /\ hits[k].target = t}
    IN hits[CHOOSE k \in K : \A j \in K : k <= j].special

\* C25: after parse_reference on a tree loaded from a checkpoint, every entity
\* has as many flags as referenced entities, and its i-th flag is the flag of
\* the hit that made its i-th reference.
C25_FlagsPaired ==
    boot = "parsed" =>
        \A i \in Items :
            /\ Len(special_reference_type[i]) = Len(reference_who[i])
            /\ \A k \in ZipRange(i) :
                  special_reference_type[i][k] = FlagOfEdge(i, reference_who[i][k])

\* ------------------------------------------------------------------ C26
\* the run resumes: the checkpoint says in progress and names a revision
Resumed == boot = "loaded" /\ document_version # "" /\ in_generation_process

\* C26: in the task graph a resumed run builds, the task of an entity waits
\* for the task of every entity it referenced in the process that wrote the
\* checkpoint, when that task was registered before its own.
C26_ResumeKeepsReferences ==
    (Resumed /\ stage = "topology") =>
        \A k \in 1..Len(deal_items) :
            \A r \in Range(live_reference_who[deal_items[k]]) \cap RegisteredBefore(k) :
                multithread_task_id[r] \in blocking0[multithread_task_id[deal_items[k]]]

\* ------------------------------------------------------------------ the run and its checkpoints
\* Runner.run and first_generate with the files they write.  The blocking
\* sets are left out: they order the tasks, and the checkpoints do not depend
\* on the order, so the worker may take any task.
HeadCommit == "head"

\* the tasks of get_task_manager: one per entity that needs work
TasksOf(st) ==
    LET E == SeqOfSet({i \in Items : need_to_generate_in(st, i)})
    IN [t \in 0..(Len(E) - 1) |-> Task(t, {}, E[t + 1])]

\* the two documents of a checkpoint of the given state
hierarchy_document(st, md) == [file |-> "written", item_status |-> st, md_content |-> md]
meta_document_of(version, in_progress) ==
    [file |-> "written", doc_version |-> version, in_generation_process |-> in_progress]

\* MetaInfo.checkpoint, lines 383-403: each file is written, or open raises
\* IOError and the file is as it was, or the write raises and the file is torn
Checkpoint(hierarchy, meta) ==
    /\ disk_hierarchy' \in {hierarchy, disk_hierarchy, Torn}
    /\ disk_meta' \in {meta, disk_meta, Torn}

\* Runner.__init__ has loaded or built the tree and written it (lines 46-59)
InitProgress ==
    /\ father = [i \in Items |-> FileNode]
    /\ reference_who = [i \in Items |-> <<>>]
    /\ special_reference_type = [i \in Items |-> <<>>]
    /\ ignore_list = {}
    /\ item_status \in [Items -> {doc_up_to_date, doc_has_not_been_generated}]
    /\ md_content = [i \in Items |->
                        IF item_status[i] = doc_has_not_been_generated THEN <<>> ELSE <<1>>]
    /\ InitNoMerge
    /\ InitNoInput
    /\ multithread_task_id = [i \in Items |-> -1]
    /\ stage = "start"
    /\ doc_items = <<>> /\ deal_items = <<>>
    /\ task_dict = NoTaskDict
    /\ now_id = 0
    /\ circle_log = <<>> /\ sel_log = <<>>
    /\ nworkers = 1
    /\ pc = [w \in Workers |-> "idle"]
    /\ it_keys = [w \in Workers |-> <<>>]
    /\ it_pos = [w \in Workers |-> 0]
    /\ cur = [w \in Workers |-> -1]
    /\ gen_ok = [w \in Workers |-> TRUE]
    /\ blocking0 = NoTaskDict /\ handed = NoTaskDict
    /\ completed = {} /\ popped = {}
    /\ failed_gen = [r \in 1..MaxRuns |-> {}]
    /\ generated = [r \in 1..MaxRuns |-> {}]
    /\ run_no = 1
    /\ document_version \in Revisions
    /\ in_generation_process \in BOOLEAN
    /\ disk_hierarchy = hierarchy_document(item_status, md_content)
    /\ disk_meta = meta_document_of(document_version, in_generation_process)
    /\ cp_pc = "idle"
    /\ now_hierarchy_json = Absent
    /\ cp_before = [hierarchy |-> Absent, meta |-> Absent]

progressFrame == <<father, reference_who, special_reference_type, ignore_list, oldVars,
                   mergeVars, cp_pc, now_hierarchy_json, cp_before, buildVars, workerVars,
                   histVars, nworkers, run_no, inputVars>>

\* first_generate, lines 106-116, or Runner.run, lines 251-269: the task
\* manager is built and the run is marked as in progress in memory.  When
\* Runner.run detects changes (lines 252-260) the entities whose code changed
\* need work again.
DispatchStarts ==
    /\ stage = "start"
    /\ \E changed \in SUBSET Items :
          /\ (document_version = "" \/ in_generation_process) => changed = {}
          /\ item_status' = [i \in Items |->
                                IF i \in changed THEN code_changed ELSE item_status[i]]
    /\ task_dict' = TasksOf(item_status')
    /\ in_generation_process' = TRUE
    /\ stage' = "dispatch"
    /\ UNCHANGED <<md_content, document_version, disk_hierarchy, disk_meta, progressFrame>>

\* worker: a task is taken, generate_doc_for_a_single_item returns (lines
\* 91-98, with its checkpoint) and the task is marked completed
TaskGenerated ==
    /\ stage = "dispatch"
    /\ \E t \in DOMAIN task_dict :
          LET i == task_dict[t].extra_info
          IN /\ md_content' = [md_content EXCEPT ![i] = Append(@, Len(@) + 1)]
             /\ item_status' = [item_status EXCEPT ![i] = doc_up_to_date]
             /\ task_dict' = [u \in DOMAIN task_dict \ {t} |-> task_dict[u]]
    /\ Checkpoint(hierarchy_document(item_status', md_content'),
                  meta_document_of(document_version, in_generation_process))
    /\ UNCHANGED <<document_version, in_generation_process, stage, progressFrame>>

\* the generator raises (lines 99-103): no checkpoint
TaskFailed ==
    /\ stage = "dispatch"
    /\ \E t \in DOMAIN task_dict :
          /\ item_status' = [item_status EXCEPT
                                ![task_dict[t].extra_info] = doc_has_not_been_generated]
          /\ task_dict' = [u \in DOMAIN task_dict \ {t} |-> task_dict[u]]
    /\ UNCHANGED <<md_content, document_version, in_generation_process, stage,
                   disk_hierarchy, disk_meta, progressFrame>>

\* the generator returned and line 96 raises inside the try block: json.dump
\* with ensure_ascii=False raises UnicodeEncodeError, which is no IOError, on a
\* response holding a lone surrogate.  open has truncated the hierarchy file,
\* the meta file is not reached, lines 94 and 95 have run, and the except
\* clause of lines 99-103 sets the status.
TaskCheckpointRaises ==
    /\ stage = "dispatch"
    /\ \E t \in DOMAIN task_dict :
          LET i == task_dict[t].extra_info
          IN /\ md_content' = [md_content EXCEPT ![i] = Append(@, Len(@) + 1)]
             /\ item_status' = [item_status EXCEPT ![i] = doc_has_not_been_generated]
             /\ task_dict' = [u \in DOMAIN task_dict \ {t} |-> task_dict[u]]
    /\ disk_hierarchy' = Torn
    /\ UNCHANGED <<document_version, in_generation_process, stage, disk_meta, progressFrame>>

\* worker returned: lines 124-131 of first_generate, lines 283-289 of run
DispatchCompletes ==
    /\ stage = "dispatch"
    /\ all_success
    /\ document_version' = HeadCommit
    /\ in_generation_process' = FALSE
    /\ Checkpoint(hierarchy_document(item_status, md_content),
                  meta_document_of(HeadCommit, FALSE))
    /\ stage' = "finished"
    /\ UNCHANGED <<docVars, task_dict, progressFrame>>

\* the process is killed while tasks remain
Interrupted ==
    /\ stage = "dispatch"
    /\ ~ all_success
    /\ stage' = "interrupted"
    /\ UNCHANGED <<docVars, task_dict, document_version, in_generation_process,
                   disk_hierarchy, disk_meta, progressFrame>>

NextProgress ==
    \/ DispatchStarts
    \/ TaskGenerated
    \/ TaskFailed
    \/ TaskCheckpointRaises
    \/ DispatchCompletes
    \/ Interrupted

SpecProgress == InitProgress /\ [][NextProgress]_vars

\* ------------------------------------------------------------------ C27
\* what the next start reads from the meta file makes it go on with the run:
\* first_generate when no revision is recorded, else the in-progress branch
RecognisedUnfinished ==
    /\ disk_meta # Torn
    /\ disk_meta.doc_version = "" \/ disk_meta.in_generation_process

\* a checkpoint written while tasks remain records the run as in progress
WritesDuringDispatchInProgress ==
    [][(stage = "dispatch" /\ stage' = "dispatch" /\ disk_meta' # disk_meta
          /\ disk_meta' # Torn) => disk_meta'.in_generation_process]_vars

\* C27: the meta file says "not in progress" with the new revision only when
\* all tasks of the run are completed, and after a run was interrupted while
\* tasks remained the meta file on disk makes the next start recognise the run
\* as unfinished.
C27_InProgressPersisted ==
    /\ (disk_meta = meta_document_of(HeadCommit, FALSE)) => (stage = "finished" /\ all_success)
    /\ stage = "interrupted" => RecognisedUnfinished

\* ------------------------------------------------------------------ C28
\* the entity whose task the step has handled
Handled == {task_dict[t].extra_info : t \in DOMAIN task_dict \ DOMAIN task_dict'}

\* C28: a call of generate_doc_for_a_single_item leaves the status and the doc
\* versions of every other entity as they were, and on the entity it is called
\* on it either appends exactly one doc version and sets the status to
\* doc_up_to_date, or sets the status to doc_has_not_been_generated and leaves
\* the doc versions as they were before the call.
C28_HandlerFrame ==
    [][\A i \in Handled :
          /\ \A j \in Items \ {i} :
                item_status'[j] = item_status[j] /\ md_content'[j] = md_content[j]
          /\ \/ /\ item_status'[i] = doc_up_to_date
                /\ Len(md_content'[i]) = Len(md_content[i]) + 1
                /\ SubSeq(md_content'[i], 1, Len(md_content[i])) = md_content[i]
             \/ /\ item_status'[i] = doc_has_not_been_generated
                /\ md_content'[i] = md_content[i]]_vars

\* ------------------------------------------------------------------ parse_reference with kinds and lines
\* The tree of one file as from_project_hierarchy_json builds it, with the raw
\* types and the line spans of its records, and a second file without
\* entities whose lines hold references too.
MaxKindLine == 4

KindLines == 1..MaxKindLine

\* the raw types FileParser gives: python records, and records of the other
\* languages (file_parser.py, lines 248 and 264)
RawTypes == {"ClassDef", "FunctionDef", "Class"}

\* the item of the second file
OtherFile == MaxItems + 1

RECURSIVE change_items(_, _, _)
\* change_items, lines 922-936: the kind of the node n; a raw type that is
\* neither ClassDef nor FunctionDef keeps the default of DocItem.item_type
change_items(f, raw, n) ==
    IF n = FileNode \/ n = OtherFile THEN "_file"
    ELSE IF raw[n] = "ClassDef" THEN "_class"
    ELSE IF raw[n] = "FunctionDef"
         THEN IF change_items(f, raw, f[n]) = "_class" THEN "_class_function"
              ELSE IF change_items(f, raw, f[n]) \in {"_function", "_sub_function"}
                   THEN "_sub_function"
                   ELSE "_function"
    ELSE "_class_function"

\* the spans of the records of a tree f: an entity lies inside its father and
\* begins after it, siblings do not overlap
Layouts(f) ==
    {l \in [Items -> KindLines \X KindLines] :
        /\ \A i \in Items : l[i][1] <= l[i][2]
        /\ \A i \in Items : f[i] # FileNode =>
              l[f[i]][1] < l[i][1] /\ l[i][2] <= l[f[i]][2]
        /\ \A i, j \in Items : (i < j /\ f[i] = f[j]) => l[i][2] < l[j][1]}

\* DocItem.code_start_line: a file item is built without it
start_line_of(n) ==
    IF n = FileNode \/ n = OtherFile THEN DefaultLine ELSE item_start_line[n]

RECURSIVE find_obj_with_lineno(_, _)
\* lines 440-457: down from the file item to the innermost entity on the line
find_obj_with_lineno(now_node, start_line_num) ==
    IF now_node = OtherFile THEN OtherFile
    ELSE LET Q == {c \in Children(father, now_node) :
                      /\ item_start_line[c] <= start_line_num
                      /\ item_end_line[c] >= start_line_num}
         IN IF Q = {} THEN now_node
            ELSE find_obj_with_lineno(CHOOSE c \in Q : \A d \in Q : c <= d, start_line_num)

\* lines 545-552 without the test of the kind
special_reference_type_of_AnyKind(referencer_node, line) ==
    start_line_of(referencer_node) = line

\* lines 545-552
special_reference_type_of(referencer_node, line) ==
    /\ item_type[referencer_node] \in {"_function", "_sub_function", "_class_function"}
    /\ start_line_of(referencer_node) = line

\* a hit as find_all_referencer gives it: the file, the line, and the entity
\* looked for
Position(in_file, line, now_obj) == [in_file |-> in_file, line |-> line, target |-> now_obj]

\* every line of the file, and the one line of the second file
AllPositions ==
    {Position(TRUE, l, t) : l \in KindLines, t \in Items}
        \cup {Position(FALSE, 1, t) : t \in Items}

RECURSIVE PositionLists(_)
PositionLists(k) ==
    IF k = 0 THEN {<<>>}
    ELSE LET P == PositionLists(k - 1)
         IN P \cup {Append(p, h) : p \in P, h \in AllPositions}

\* lines 525-535: the node of the hit
referencer_of(p) ==
    find_obj_with_lineno(IF p.in_file THEN FileNode ELSE OtherFile, p.line)

\* lines 536-557 for one hit; the item of the second file has lists of its own
walk_position(lists, p) ==
    LET r == referencer_of(p)
        t == p.target
    IN IF r = OtherFile
       THEN IF t \in Range(lists.other_reference_who) THEN lists
            ELSE [lists EXCEPT
                     !.other_reference_who = Append(@, t),
                     !.other_special_reference_type =
                         Append(@, special_reference_type_of(r, p.line)),
                     !.who_reference_me[t] = Append(@, r)]
       ELSE LET w == walk_hit([reference_who |-> lists.reference_who,
                               special_reference_type |-> lists.special_reference_type,
                               who_reference_me |-> lists.who_reference_me],
                              Hit(r, t, special_reference_type_of(r, p.line)))
            IN [lists EXCEPT !.reference_who = w.reference_who,
                             !.special_reference_type = w.special_reference_type,
                             !.who_reference_me = w.who_reference_me]

RECURSIVE walk_positions(_, _)
walk_positions(lists, ps) ==
    IF ps = <<>> THEN lists
    ELSE walk_positions(walk_position(lists, Head(ps)), Tail(ps))

RECURSIVE walk_file_positions(_, _, _)
\* walk_file, lines 481-559: the entities in the order of the tree
walk_file_positions(lists, objs, P) ==
    IF objs = <<>> THEN lists
    ELSE walk_file_positions(
             walk_positions(lists, SelectSeq(P, LAMBDA p : p.target = Head(objs))),
             Tail(objs), P)

parse_reference_positions(P) ==
    walk_file_positions([reference_who |-> reference_who,
                         special_reference_type |-> special_reference_type,
                         who_reference_me |-> who_reference_me,
                         other_reference_who |-> other_reference_who,
                         other_special_reference_type |-> other_special_reference_type],
                        Tail(get_travel_list(father, FileNode)), P)

\* the state after from_project_hierarchy_json
InitKinds ==
    /\ father \in TreeShapes
    /\ reference_who = [i \in Items |-> <<>>]
    /\ special_reference_type = [i \in Items |-> <<>>]
    /\ who_reference_me = [i \in Items |-> <<>>]
    /\ hits = <<>>
    /\ ignore_list = {}
    /\ item_status = [i \in Items |-> doc_has_not_been_generated]
    /\ md_content = [i \in Items |-> <<>>]
    /\ code_content = [i \in Items |-> "old text"]
    /\ has_task = [n \in Nodes |-> FALSE]
    /\ old_father = father
    /\ old_key = [i \in Items |-> i]
    /\ old_item_status = item_status
    /\ old_md_content = md_content
    /\ old_code_content = code_content
    /\ old_who_reference_me_name_list = [i \in Items |-> {}]
    /\ deleted_items = <<>>
    /\ rstage = "fresh"
    /\ InitNoRecords /\ InitNoCalls /\ InitNoSearch /\ InitNoBoot /\ InitNoTrip
    /\ InitSchedOnly(1)
    /\ content_type \in [Items -> RawTypes]
    /\ item_type = [n \in Nodes \cup {OtherFile} |-> change_items(father, content_type, n)]
    /\ \E l \in Layouts(father) :
          /\ item_start_line = [i \in Items |-> l[i][1]]
          /\ item_end_line = [i \in Items |-> l[i][2]]
    /\ positions = <<>>
    /\ other_reference_who = <<>>
    /\ other_special_reference_type = <<>>

\* get_topology, line 641, with the resolver giving the hits P
ParseReferencePositions ==
    /\ rstage = "fresh"
    /\ \E P \in PositionLists(MaxParseHits) :
          /\ positions' = P
          /\ hits' = [k \in 1..Len(P) |->
                        Hit(referencer_of(P[k]), P[k].target,
                            special_reference_type_of(referencer_of(P[k]), P[k].line))]
          /\ reference_who' = parse_reference_positions(P).reference_who
          /\ special_reference_type' = parse_reference_positions(P).special_reference_type
          /\ who_reference_me' = parse_reference_positions(P).who_reference_me
          /\ other_reference_who' = parse_reference_positions(P).other_reference_who
          /\ other_special_reference_type' =
                parse_reference_positions(P).other_special_reference_type
    /\ rstage' = "parsed"
    /\ UNCHANGED <<father, ignore_list, oldVars, docVars, code_content, has_task,
                   deleted_items, buildVars, workerVars, histVars, stage, task_dict,
                   nworkers, run_no, diskVars, hierVars, sccVars, refVars, bootVars,
                   content_type, item_type, item_start_line, item_end_line, tripVars>>

NextKinds == ParseReferencePositions

SpecKinds == InitKinds /\ [][NextKinds]_vars

\* ------------------------------------------------------------------ C29
\* the referencing nodes, and the two lists of each
Referencers == Items \cup {OtherFile}
reference_who_of(r) == IF r = OtherFile THEN other_reference_who ELSE reference_who[r]
special_reference_type_list_of(r) ==
    IF r = OtherFile THEN other_special_reference_type ELSE special_reference_type[r]

\* the hit that made the edge from r to t: the first one of r on t
EdgeHit(r, t) ==
    positions[CHOOSE k \in 1..Len(positions) :
                 /\ referencer_of(positions[k]) = r /\ positions[k].target = t
                 /\ \A j \in 1..(k - 1) :
                       ~ (referencer_of(positions[j]) = r /\ positions[j].target = t)]

FunctionKinds == {"_function", "_class_function", "_sub_function"}

MaxTripRecords == 2

\* a record of the document: the fields of lines 859-867 and content["type"]
JsonRecord(name, type, code_start_line, code_end_line, status, md) ==
    [name |-> name, type |-> type, code_start_line |-> code_start_line,
     code_end_line |-> code_end_line, item_status |-> status, md_content |-> md]

JsonRecords ==
    {JsonRecord(n, t, a, b, st, IF st = doc_has_not_been_generated THEN <<>> ELSE <<1>>) :
        n \in RecordNames, t \in RawTypes, a \in Lines, b \in Lines,
        st \in {doc_has_not_been_generated, doc_up_to_date}}

\* the spans a parser gives: first line not after the last, and two records
\* one inside the other or apart
Parsed(L) ==
    /\ \A i \in 1..Len(L) : L[i].code_start_line <= L[i].code_end_line
    /\ \A i, j \in 1..Len(L) :
          \/ L[i].code_end_line < L[j].code_start_line
          \/ L[j].code_end_line < L[i].code_start_line
          \/ L[i].code_start_line <= L[j].code_start_line
                /\ L[j].code_end_line <= L[i].code_end_line
          \/ L[j].code_start_line <= L[i].code_start_line
                /\ L[i].code_end_line <= L[j].code_end_line

RECURSIVE JsonRecordLists(_)
JsonRecordLists(k) ==
    IF k = 0 THEN {<<>>}
    ELSE LET P == JsonRecordLists(k - 1)
         IN P \cup {Append(L, r) : L \in {Q \in P : Len(Q) = k - 1}, r \in JsonRecords}

RECURSIVE children_after(_, _)
\* the children dicts after the loop of lines 878-919 has attached k records
children_after(L, k) ==
    IF k = 0 THEN [c \in 0..Len(L) |-> {}]
    ELSE LET dicts == children_after(L, k - 1)
             potential_father == father_of(L, k)
             child_name == child_key(dicts[potential_father], L[k].name)
         IN [dicts EXCEPT ![potential_father] = dict_set(@, child_name, k)]

\* the key a record got
key_of(L, i) ==
    LET dict == children_after(L, Len(L))[father_of(L, i)]
    IN (CHOOSE p \in dict : p[2] = i)[1]

\* DocItemType.to_str, lines 41-51
to_str(kind) ==
    IF kind = "_class" THEN "ClassDef"
    ELSE IF kind \in {"_function", "_class_function", "_sub_function"} THEN "FunctionDef"
    ELSE kind

\* from_project_hierarchy_json, lines 857-936, for the records of one file
from_project_hierarchy_json(L) ==
    [i \in 1..Len(L) |->
        [obj_name |-> L[i].name,
         key |-> key_of(L, i),
         father |-> father_of(L, i),
         item_type |-> change_items([k \in 1..Len(L) |-> father_of(L, k)],
                                    [k \in 1..Len(L) |-> L[k].type], i),
         item_status |-> L[i].item_status,
         md_content |-> L[i].md_content,
         code_start_line |-> L[i].code_start_line,
         code_end_line |-> L[i].code_end_line]]

RECURSIVE walk_file_json(_, _)
RECURSIVE walk_children_json(_, _)
\* walk_file of to_hierarchy_json, lines 768-796: the item, then its children
\* in the order of the children dict
walk_file_json(T, now_obj) ==
    <<JsonRecord(T[now_obj].obj_name, to_str(T[now_obj].item_type),
                 T[now_obj].code_start_line, T[now_obj].code_end_line,
                 T[now_obj].item_status, T[now_obj].md_content)>>
        \o walk_children_json(T, SeqOfSet({c \in 1..Len(T) : T[c].father = now_obj}))

walk_children_json(T, cs) ==
    IF cs = <<>> THEN <<>>
    ELSE walk_file_json(T, Head(cs)) \o walk_children_json(T, Tail(cs))

\* lines 798-800: the list written for the file
file_hierarchy_content(T) ==
    walk_children_json(T, SeqOfSet({c \in 1..Len(T) : T[c].father = FileNode}))

InitTrip ==
    /\ obj_item_list \in {L \in JsonRecordLists(MaxTripRecords) : Parsed(L)}
    /\ item_father = <<>>
    /\ children = <<>>
    /\ attach_pos = 0
    /\ InitNoCalls
    /\ InitNoSearch
    /\ InitNoBoot /\ InitNoKinds
    /\ InitBlankTree
    /\ trip_pc = "records"
    /\ file_tree = <<>>
    /\ reloaded_tree = <<>>

tripFrame == <<father, reference_who, special_reference_type, ignore_list, oldVars,
               mergeVars, docVars, buildVars, workerVars, histVars, stage, task_dict,
               nworkers, run_no, document_version, in_generation_process,
               disk_hierarchy, disk_meta, cp_pc, cp_before>>

\* from_project_hierarchy_json on the records
BuildTree ==
    /\ trip_pc = "records"
    /\ file_tree' = from_project_hierarchy_json(obj_item_list)
    /\ trip_pc' = "built"
    /\ UNCHANGED <<obj_item_list, now_hierarchy_json, reloaded_tree>>
    /\ UNCHANGED <<item_father, children, attach_pos, sccVars, refVars, bootVars, weakVars>>
    /\ UNCHANGED tripFrame

\* to_hierarchy_json
WriteTree ==
    /\ trip_pc = "built"
    /\ now_hierarchy_json' = file_hierarchy_content(file_tree)
    /\ trip_pc' = "written"
    /\ UNCHANGED <<obj_item_list, file_tree, reloaded_tree>>
    /\ UNCHANGED <<item_father, children, attach_pos, sccVars, refVars, bootVars, weakVars>>
    /\ UNCHANGED tripFrame

\* from_project_hierarchy_json on the document
ReloadTree ==
    /\ trip_pc = "written"
    /\ reloaded_tree' = from_project_hierarchy_json(now_hierarchy_json)
    /\ trip_pc' = "reloaded"
    /\ UNCHANGED <<obj_item_list, file_tree, now_hierarchy_json>>
    /\ UNCHANGED <<item_father, children, attach_pos, sccVars, refVars, bootVars, weakVars>>
    /\ UNCHANGED tripFrame

NextTrip ==
    \/ BuildTree
    \/ WriteTree
    \/ ReloadTree

SpecTrip == InitTrip /\ [][NextTrip]_vars

\* ------------------------------------------------------------------ C30
RECURSIVE key_path(_, _)
\* the keys from the file down to the item
key_path(T, n) ==
    IF n = FileNode THEN <<>> ELSE Append(key_path(T, T[n].father), T[n].key)

\* what C30 compares: per entity its keys from the file down (its key
\* and its parent), its kind, its status and its doc versions
Entities(T) ==
    {[path |-> key_path(T, n), item_type |-> T[n].item_type,
      item_status |-> T[n].item_status, md_content |-> T[n].md_content] :
        n \in 1..Len(T)}

\* the same without the kinds
EntitiesWithoutKind(T) ==
    {[path |-> key_path(T, n), item_status |-> T[n].item_status,
      md_content |-> T[n].md_content] : n \in 1..Len(T)}

\* C30: the tree built from the document that to_hierarchy_json wrote has the
\* same entities under the same keys and parents as the tree written, each with
\* the same kind, status and doc versions, whatever the raw types of the
\* records were.
C30_RoundTrip ==
    trip_pc = "reloaded" =>
        /\ Len(reloaded_tree) = Len(file_tree)
        /\ Entities(reloaded_tree) = Entities(file_tree)

====
